---------------------------- MODULE Spec2Model ----------------------------
(***************************************************************************)
(* Solar-yield and financial-modelling core of Nights-SDH/Solaris.         *)
(*                                                                         *)
(* The core is stateless: every request calls one pure function on its     *)
(* arguments and keeps nothing afterwards.  The state of the model is the *)
(* request being served: which operation ran (op), the arguments it was    *)
(* given (args) and what it returned (ret).  Each Call action is one call  *)
(* of one source function with arguments drawn from a bounded set; Respond *)
(* hands the result back and returns to idle.                              *)
(*                                                                         *)
(* Python floats are modelled as exact rationals [n |-> numerator,         *)
(* d |-> denominator] in lowest terms with d > 0.  A value with d = 0 is   *)
(* the outcome of a division by zero: it stands for the ZeroDivisionError  *)
(* the Python code raises there, and it propagates through arithmetic the  *)
(* way the exception propagates through the call.                          *)
(***************************************************************************)
EXTENDS Integers, Sequences, FiniteSets, TLC

VARIABLES op, args, ret

vars == <<op, args, ret>>

-----------------------------------------------------------------------------
(* Exact rational arithmetic *)

Abs(x) == IF x < 0 THEN -x ELSE x

RECURSIVE GCD(_, _)
GCD(a, b) == IF b = 0 THEN a ELSE GCD(b, a % b)

Rat(n, d) ==
    IF d = 0 THEN [n |-> 1, d |-> 0]
    ELSE LET g == GCD(Abs(n), Abs(d))
             s == IF d < 0 THEN -1 ELSE 1
         IN  [n |-> s * (n \div g), d |-> s * (d \div g)]

R(i) == [n |-> i, d |-> 1]

ZDE == [n |-> 1, d |-> 0]

IsErr(x) == x.d = 0

RNeg(x) == [n |-> -x.n, d |-> x.d]

RAdd(x, y) ==
    IF IsErr(x) \/ IsErr(y) THEN ZDE
    ELSE LET g == GCD(x.d, y.d)
         IN  Rat(x.n * (y.d \div g) + y.n * (x.d \div g), (x.d \div g) * y.d)

RSub(x, y) == RAdd(x, RNeg(y))

RMul(x, y) ==
    IF IsErr(x) \/ IsErr(y) THEN ZDE
    ELSE LET g1 == GCD(Abs(x.n), y.d)
             g2 == GCD(Abs(y.n), x.d)
         IN  Rat((x.n \div g1) * (y.n \div g2), (x.d \div g2) * (y.d \div g1))

\* Python's x / y: raises ZeroDivisionError when y is zero.
RDiv(x, y) ==
    IF IsErr(x) \/ IsErr(y) \/ y.n = 0 THEN ZDE
    ELSE RMul(x, Rat(y.d, y.n))

\* x < y and x <= y: by the integer parts, and by the fractional parts when
\* the integer parts are equal.
RLt(x, y) ==
    LET fx == x.n \div x.d
        fy == y.n \div y.d
    IN  IF fx # fy THEN fx < fy
        ELSE (x.n - fx * x.d) * y.d < (y.n - fy * y.d) * x.d

RLe(x, y) == ~RLt(y, x)

RIsNeg(x) == x.n < 0

RECURSIVE IPow(_, _)
IPow(b, k) == IF k = 0 THEN 1 ELSE b * IPow(b, k - 1)

\* x ** k for an integer k >= 0; a fraction in lowest terms stays so.
RPow(x, k) == [n |-> IPow(x.n, k), d |-> IPow(x.d, k)]

\* math.floor and math.ceil of a rational (\div rounds towards minus infinity).
RFloor(x) == x.n \div x.d

RCeil(x) == -((-x.n) \div x.d)

\* Python's int(x): truncation towards zero.
PyInt(x) == IF x.n >= 0 THEN x.n \div x.d ELSE -((-x.n) \div x.d)

(***************************************************************************)
(* Python's round(x, 1).  The result is the multiple of 0.1 nearest to the *)
(* float x.  When the real value lies exactly half way between two         *)
(* multiples of 0.1 (x = k/20, k odd) the float decides: k/20 with         *)
(* denominator 4 (x.25, x.75) is a float, and Python then rounds half to   *)
(* even; any other k/20 is not a float, the stored value lies just above   *)
(* or just below it, and tie_up says which.                                *)
(***************************************************************************)
Round1(x, tie_up) ==
    IF IsErr(x) THEN ZDE
    ELSE LET whole == x.n \div x.d
             r     == x.n - whole * x.d               \* x = whole + r / x.d
             tenth == (10 * r) \div x.d
             rest  == 10 * r - tenth * x.d            \* what is left of a tenth
             lo    == 10 * whole + tenth
             up    == IF 2 * rest = x.d
                      THEN IF x.d = 4 \/ x.d = 2 \/ x.d = 1
                           THEN lo % 2 = 1
                           ELSE tie_up
                      ELSE 2 * rest > x.d
         IN  Rat(IF up THEN lo + 1 ELSE lo, 10)

\* Python's round(x): the nearest integer, a half going to the even one.
Round0(x) ==
    LET lo == x.n \div x.d
        r  == x.n - lo * x.d
    IN  IF 2 * r = x.d THEN (IF lo % 2 = 1 THEN lo + 1 ELSE lo)
        ELSE IF 2 * r > x.d THEN lo + 1 ELSE lo

RAbs(x) == [n |-> Abs(x.n), d |-> x.d]

RMin(x, y) == IF RLe(x, y) THEN x ELSE y

RMax(x, y) == IF RLe(x, y) THEN y ELSE x

\* Python truthiness of a number: "not x" holds for 0 and 0.0.
Falsy(x) == x.n = 0

\* Optional values: None, or Some(v).
None == [none |-> TRUE, v |-> R(0)]

Some(x) == [none |-> FALSE, v |-> x]


-----------------------------------------------------------------------------
(* Financial analysis: shared helpers *)

\* Python list indexing: cash_flows[i] for i >= 0, and cash_flows[-1].
At(cash_flows, i) == cash_flows[i + 1]

Last(cash_flows) == cash_flows[Len(cash_flows)]

\* degraded_factor = (1 - annual_degradation) ** year
DegradedFactor(annual_degradation, year) ==
    RPow(RSub(R(1), annual_degradation), year)

\* The loop "for i in range(1, len(cash_flows))" with its test and break /
\* return: the first index at which the cumulative position turns from
\* negative to non-negative, 0 when the loop finds none.
FirstCrossing(cash_flows) ==
    LET hits == {i \in 1..(Len(cash_flows) - 1) :
                    /\ ~RIsNeg(At(cash_flows, i))
                    /\ RIsNeg(At(cash_flows, i - 1))}
    IN  IF hits = {} THEN 0
        ELSE CHOOSE i \in hits : \A j \in hits : i <= j

\* Mutant of Interpolate: counts from year i instead of year i - 1.
Interpolate_FromI(cash_flows, i) ==
    RAdd(R(i),
         RDiv(RNeg(At(cash_flows, i - 1)),
              RSub(At(cash_flows, i), At(cash_flows, i - 1))))

\* i - 1 + (-cash_flows[i-1]) / (cash_flows[i] - cash_flows[i-1])
Interpolate(cash_flows, i) ==
    RAdd(R(i - 1),
         RDiv(RNeg(At(cash_flows, i - 1)),
              RSub(At(cash_flows, i), At(cash_flows, i - 1))))

-----------------------------------------------------------------------------
(* src/app.py: calculate_enhanced_financial_metrics *)

\* maintenance_rate by year: 1%, then 1.5% after year 10, 2% after year 20.
EnhancedMaintenanceRate(year) ==
    IF year <= 10 THEN Rat(1, 100)
    ELSE IF year <= 20 THEN Rat(15, 1000)
    ELSE Rat(2, 100)

\* net_cash_flow of one year of the loop.
EnhancedNetCashFlow(total_cost, annual_revenue, annual_degradation, year) ==
    RSub(RMul(annual_revenue, DegradedFactor(annual_degradation, year)),
         RMul(total_cost, EnhancedMaintenanceRate(year)))

\* Mutant of EnhancedAppend: the year's net flow is appended, not the running sum.
EnhancedAppend_NetOnly(cash_flows, net_cash_flow) ==
    Append(cash_flows, net_cash_flow)

\* The loop body's "cumulative_cash_flow += net_cash_flow; append".
EnhancedAppend(cash_flows, net_cash_flow) ==
    Append(cash_flows, RAdd(Last(cash_flows), net_cash_flow))

RECURSIVE EnhancedCashFlows(_, _, _, _)
EnhancedCashFlows(total_cost, annual_revenue, annual_degradation, year) ==
    IF year <= 0 THEN <<RNeg(total_cost)>>
    ELSE EnhancedAppend(
             EnhancedCashFlows(total_cost, annual_revenue, annual_degradation, year - 1),
             EnhancedNetCashFlow(total_cost, annual_revenue, annual_degradation, year))

\* total_revenue_25years and total_maintenance_25years, the loop's own sums.
RECURSIVE EnhancedTotalRevenue(_, _, _)
EnhancedTotalRevenue(annual_revenue, annual_degradation, year) ==
    IF year <= 0 THEN R(0)
    ELSE RAdd(EnhancedTotalRevenue(annual_revenue, annual_degradation, year - 1),
              RMul(annual_revenue, DegradedFactor(annual_degradation, year)))

RECURSIVE EnhancedTotalMaintenance(_, _)
EnhancedTotalMaintenance(total_cost, year) ==
    IF year <= 0 THEN R(0)
    ELSE RAdd(EnhancedTotalMaintenance(total_cost, year - 1),
              RMul(total_cost, EnhancedMaintenanceRate(year)))

\* payback_period before it is rounded: None stands for float('inf').
EnhancedPayback(cash_flows, lifetime) ==
    LET i == FirstCrossing(cash_flows)
    IN  IF i # 0 THEN Some(Interpolate(cash_flows, i))
        ELSE IF ~RIsNeg(Last(cash_flows)) THEN Some(R(lifetime))
        ELSE None

\* roi = (net_profit / total_cost) * 100 if total_cost > 0 else 0
EnhancedRoi(net_profit, total_cost) ==
    IF RLt(R(0), total_cost)
    THEN RMul(RDiv(net_profit, total_cost), R(100))
    ELSE R(0)

\* annual_rec_revenue = annual_production * rec_price
EnhancedRecRevenue(annual_production, rec_price) ==
    RMul(annual_production, rec_price)

calculate_enhanced_financial_metrics(a) ==
    LET total_cost        == RMul(R(a.system_size), R(a.install_cost_per_kw))
        annual_production == RMul(R(a.system_size), R(a.annual_energy))
        annual_smp_revenue == RMul(annual_production, R(a.smp_price))
        annual_rec_revenue == EnhancedRecRevenue(annual_production, R(a.rec_price))
        annual_revenue    == RAdd(annual_smp_revenue, annual_rec_revenue)
        deg               == a.annual_degradation
        cash_flows        == EnhancedCashFlows(total_cost, annual_revenue, deg, a.lifetime)
        total_revenue     == EnhancedTotalRevenue(annual_revenue, deg, a.lifetime)
        total_maintenance == EnhancedTotalMaintenance(total_cost, a.lifetime)
        payback_period    == EnhancedPayback(cash_flows, a.lifetime)
        net_profit        == RSub(RSub(total_revenue, total_maintenance), total_cost)
        roi               == EnhancedRoi(net_profit, total_cost)
    IN  [ total_cost         |-> PyInt(total_cost),
          annual_production  |-> Round1(annual_production, a.tie_up),
          annual_revenue     |-> PyInt(annual_revenue),
          annual_smp_revenue |-> PyInt(annual_smp_revenue),
          annual_rec_revenue |-> PyInt(annual_rec_revenue),
          payback_exact      |-> payback_period,
          payback_period     |-> IF payback_period.none THEN None
                                 ELSE Some(Round1(payback_period.v, a.tie_up)),
          roi_exact          |-> roi,
          roi                |-> Round1(roi, a.tie_up),
          cash_flows         |-> cash_flows,
          life_cycle_revenue |-> PyInt(RSub(total_revenue, total_maintenance)),
          net_profit         |-> PyInt(net_profit),
          raised             |-> \/ IsErr(roi)
                                 \/ (~payback_period.none /\ IsErr(payback_period.v)) ]

-----------------------------------------------------------------------------
(* src/solar_prediction_system/core/financhial_analysis.py: FinancialAnalyzer *)

\* maintenance_cost = total_cost * 0.01, every year
AnalyzerMaintenanceRate(year) == Rat(1, 100)

AnalyzerNetCashFlow(total_cost, annual_revenue, annual_degradation, year) ==
    RSub(RMul(annual_revenue, DegradedFactor(annual_degradation, year)),
         RMul(total_cost, AnalyzerMaintenanceRate(year)))

AnalyzerAppend(cash_flows, net_cash_flow) ==
    Append(cash_flows, RAdd(Last(cash_flows), net_cash_flow))

RECURSIVE _calculate_cash_flows(_, _, _, _)
_calculate_cash_flows(total_cost, annual_revenue, annual_degradation, year) ==
    IF year <= 0 THEN <<RNeg(total_cost)>>
    ELSE AnalyzerAppend(
             _calculate_cash_flows(total_cost, annual_revenue, annual_degradation, year - 1),
             AnalyzerNetCashFlow(total_cost, annual_revenue, annual_degradation, year))

_calculate_payback_period(cash_flows) ==
    LET i == FirstCrossing(cash_flows)
    IN  IF i # 0 THEN Some(Interpolate(cash_flows, i))
        ELSE IF RIsNeg(Last(cash_flows)) THEN None
        ELSE Some(R(Len(cash_flows) - 1))

\* Mutant of _calculate_roi: the guard "if total_cost == 0" is missing.
_calculate_roi_NoGuard(cash_flows, total_cost) ==
    RMul(RDiv(RAdd(Last(cash_flows), total_cost), total_cost), R(100))

_calculate_roi(cash_flows, total_cost) ==
    IF total_cost.n = 0 THEN R(0)
    ELSE LET total_return == RAdd(Last(cash_flows), total_cost)
         IN  RMul(RDiv(total_return, total_cost), R(100))

RECURSIVE LifeCycleTotalRevenue(_, _, _)
LifeCycleTotalRevenue(annual_revenue, annual_degradation, year) ==
    IF year <= 0 THEN R(0)
    ELSE RAdd(LifeCycleTotalRevenue(annual_revenue, annual_degradation, year - 1),
              RMul(annual_revenue, DegradedFactor(annual_degradation, year)))

\* Mutant of _calculate_life_cycle_revenue: the maintenance is not deducted.
_calculate_life_cycle_revenue_NoMaintenance(annual_revenue, annual_degradation, lifetime, total_cost) ==
    LifeCycleTotalRevenue(annual_revenue, annual_degradation, lifetime)

_calculate_life_cycle_revenue(annual_revenue, annual_degradation, lifetime, total_cost) ==
    RSub(LifeCycleTotalRevenue(annual_revenue, annual_degradation, lifetime),
         RMul(RMul(total_cost, Rat(1, 100)), R(lifetime)))

(***************************************************************************)
(* _calculate_npv and _calculate_irr divide only by (1 + rate) ** year.    *)
(* A power of a non-zero base is non-zero, so either step raises           *)
(* ZeroDivisionError exactly when it runs a year with 1 + rate = 0.        *)
(* _calculate_irr evaluates rates mid = (low + high) / 2 inside its        *)
(* bracket [0, 1].                                                         *)
(***************************************************************************)
NpvDiscountRate == Rat(3, 100)

NpvRaises(cash_flows, discount_rate) ==
    /\ Len(cash_flows) > 1
    /\ RAdd(R(1), discount_rate).n = 0

IrrLow == R(0)

IrrHigh == R(1)

IrrRaises(cash_flows) ==
    /\ Len(cash_flows) > 1
    /\ RLe(IrrLow, R(-1)) /\ RLe(R(-1), IrrHigh)

calculate_financial_metrics(a) ==
    LET total_cost        == RMul(R(a.system_size), R(a.install_cost_per_kw))
        annual_production == RMul(R(a.system_size), R(a.annual_energy))
        annual_revenue    == RMul(annual_production, R(a.electricity_price))
        deg               == a.annual_degradation
        cash_flows        == _calculate_cash_flows(total_cost, annual_revenue, deg, a.lifetime)
        payback_period    == _calculate_payback_period(cash_flows)
        roi               == _calculate_roi(cash_flows, total_cost)
        life_cycle_revenue ==
            _calculate_life_cycle_revenue(annual_revenue, deg, a.lifetime, total_cost)
    IN  [ total_cost         |-> PyInt(total_cost),
          annual_production  |-> Round1(annual_production, a.tie_up),
          annual_revenue     |-> PyInt(annual_revenue),
          payback_exact      |-> payback_period,
          payback_period     |-> payback_period,
          roi_exact          |-> roi,
          roi                |-> Round1(roi, a.tie_up),
          cash_flows         |-> cash_flows,
          life_cycle_revenue |-> PyInt(life_cycle_revenue),
          raised             |-> \/ IsErr(roi)
                                 \/ (~payback_period.none /\ IsErr(payback_period.v))
                                 \/ NpvRaises(cash_flows, NpvDiscountRate)
                                 \/ IrrRaises(cash_flows) ]

-----------------------------------------------------------------------------
(* src/app_railway.py: calculate_farmland_solar and calculate_desktop_solar *)

\* rec_revenue = (annual_generation_kwh / 1000) * rec_weight * rec_price
FarmlandRecRevenue(annual_generation_kwh, rec_price) ==
    RMul(RMul(RDiv(annual_generation_kwh, R(1000)), Rat(12, 10)), rec_price)

calculate_farmland_solar(a) ==
    IF RLt(a.area_pyeong, R(20))
    THEN [installable |-> FALSE, message |-> "area below 20 pyeong"]
    ELSE
    LET area_sqm            == RMul(a.area_pyeong, Rat(33, 10))
        install_capacity_kw == RMul(a.area_pyeong, Rat(14, 100))
        annual_generation_per_kw ==
            IF /\ RLe(R(33), a.lat) /\ RLe(a.lat, R(38))
               /\ RLe(R(125), a.lon) /\ RLe(a.lon, R(130))
            THEN R(1300) ELSE R(1200)
        annual_generation_kwh == RMul(install_capacity_kw, annual_generation_per_kw)
        smp_price           == Rat(12839, 100)
        rec_price           == R(70000)
        smp_revenue         == RMul(annual_generation_kwh, smp_price)
        rec_revenue         == FarmlandRecRevenue(annual_generation_kwh, rec_price)
        total_install_cost  == RMul(install_capacity_kw, R(1800000))
        maintenance_cost    == RMul(install_capacity_kw, R(15000))
        insurance_cost      == RMul(total_install_cost, Rat(3, 1000))
        management_cost     == R(500000)
        total_om_cost       == RAdd(RAdd(maintenance_cost, insurance_cost), management_cost)
        total_annual_revenue == RSub(RAdd(smp_revenue, rec_revenue), total_om_cost)
        payback_years       == IF RLt(R(0), total_annual_revenue)
                               THEN RDiv(total_install_cost, total_annual_revenue)
                               ELSE R(999)
        farming_revenue     == RMul(a.area_pyeong, R(3571))
        solar_vs_farming_ratio ==
            IF RLt(R(0), farming_revenue)
            THEN RDiv(total_annual_revenue, farming_revenue) ELSE R(1)
    IN  [ installable           |-> TRUE,
          area_pyeong           |-> a.area_pyeong,
          area_sqm              |-> Round0(area_sqm),
          install_capacity_kw   |-> Round1(install_capacity_kw, a.tie_up),
          annual_generation_kwh |-> Round0(annual_generation_kwh),
          generation_exact      |-> annual_generation_kwh,
          rec_price             |-> rec_price,
          annual_revenue        |-> Round0(total_annual_revenue),
          smp_revenue           |-> Round0(smp_revenue),
          smp_revenue_exact     |-> smp_revenue,
          rec_revenue           |-> Round0(rec_revenue),
          rec_revenue_exact     |-> rec_revenue,
          om_cost               |-> Round0(total_om_cost),
          install_cost          |-> Round0(total_install_cost),
          payback_years         |-> Round1(payback_years, a.tie_up),
          farming_revenue       |-> Round0(farming_revenue),
          solar_vs_farming_ratio |-> Round1(solar_vs_farming_ratio, a.tie_up) ]

\* rec_revenue = (adjusted_generation / 1000) * 1.5 * rec_price
DesktopRecRevenue(adjusted_generation, rec_price) ==
    RMul(RMul(RDiv(adjusted_generation, R(1000)), Rat(15, 10)), rec_price)

\* "float(x) if x else default"
OrDefault(x, default) == IF Falsy(x) THEN default ELSE x

\* Mutant of TiltEfficiency: the lower clamp is dropped.
TiltEfficiency_NoFloor(tilt, optimal_tilt) ==
    RMin(Rat(11, 10), RSub(R(1), RMul(RAbs(RSub(tilt, optimal_tilt)), Rat(8, 1000))))

\* tilt_efficiency = max(0.8, min(1.1, 1.0 - abs(tilt - optimal_tilt) * 0.008))
TiltEfficiency(tilt, optimal_tilt) ==
    RMax(Rat(8, 10),
         RMin(Rat(11, 10),
              RSub(R(1), RMul(RAbs(RSub(tilt, optimal_tilt)), Rat(8, 1000)))))

\* azimuth_diff = min(abs(azimuth - optimal_azimuth),
\*                    360 - abs(azimuth - optimal_azimuth))
AzimuthDiff(azimuth, optimal_azimuth) ==
    RMin(RAbs(RSub(azimuth, optimal_azimuth)),
         RSub(R(360), RAbs(RSub(azimuth, optimal_azimuth))))

\* azimuth_efficiency = max(0.7, min(1.0, 1.0 - azimuth_diff * 0.002))
AzimuthEfficiency(azimuth_diff) ==
    RMax(Rat(7, 10), RMin(R(1), RSub(R(1), RMul(azimuth_diff, Rat(2, 1000)))))

calculate_desktop_solar(a) ==
    IF Falsy(a.lat) \/ Falsy(a.lng)
    THEN [success |-> FALSE, error |-> "location required"]
    ELSE
    LET size0    == OrDefault(a.system_size, R(30))
        tilt0    == OrDefault(a.tilt, R(30))
        azimuth0 == OrDefault(a.azimuth, R(180))
        smp_price == OrDefault(a.smp_price, Rat(12839, 100))
        rec_price == OrDefault(a.rec_price, R(70000))
        system_size == IF RLe(size0, R(0)) \/ RLt(R(10000), size0) THEN R(30) ELSE size0
        tilt     == IF RLt(tilt0, R(0)) \/ RLt(R(90), tilt0) THEN R(30) ELSE tilt0
        azimuth  == IF RLt(azimuth0, R(0)) \/ RLt(R(360), azimuth0) THEN R(180) ELSE azimuth0
        base_annual_generation == RMul(system_size, R(1300))
        optimal_tilt    == RAdd(RMul(RAbs(a.lat), Rat(76, 100)), Rat(31, 10))
        optimal_azimuth == IF RLe(R(0), a.lat) THEN 180 ELSE 0
        tilt_efficiency    == TiltEfficiency(tilt, optimal_tilt)
        azimuth_diff       == AzimuthDiff(azimuth, R(optimal_azimuth))
        azimuth_efficiency == AzimuthEfficiency(azimuth_diff)
        adjusted_generation ==
            RMul(RMul(base_annual_generation, tilt_efficiency), azimuth_efficiency)
        smp_revenue    == RMul(adjusted_generation, smp_price)
        rec_revenue    == DesktopRecRevenue(adjusted_generation, rec_price)
        om_cost        == RMul(system_size, R(12000))
        annual_revenue == RSub(RAdd(smp_revenue, rec_revenue), om_cost)
        install_cost   == RMul(system_size, R(2000000))
        payback_years  == IF RLt(R(0), annual_revenue)
                          THEN RDiv(install_cost, annual_revenue) ELSE R(999)
    IN  [ success            |-> TRUE,
          annual_generation  |-> Round0(adjusted_generation),
          generation_exact   |-> adjusted_generation,
          rec_price          |-> rec_price,
          annual_revenue     |-> Round0(annual_revenue),
          smp_revenue        |-> Round0(smp_revenue),
          smp_revenue_exact  |-> smp_revenue,
          rec_revenue        |-> Round0(rec_revenue),
          rec_revenue_exact  |-> rec_revenue,
          om_cost            |-> Round0(om_cost),
          install_cost       |-> Round0(install_cost),
          payback_years      |-> IF RLt(payback_years, R(50))
                                 THEN Round1(payback_years, a.tie_up) ELSE Rat(999, 10),
          optimal_tilt       |-> Round1(optimal_tilt, a.tie_up),
          optimal_azimuth    |-> optimal_azimuth,
          tilt_factor        |-> tilt_efficiency,
          azimuth_factor     |-> azimuth_efficiency,
          tilt_efficiency    |-> Round1(RMul(tilt_efficiency, R(100)), a.tie_up),
          azimuth_efficiency |-> Round1(RMul(azimuth_efficiency, R(100)), a.tie_up),
          system_size        |-> system_size,
          tilt_used          |-> tilt,
          azimuth_used       |-> azimuth ]

-----------------------------------------------------------------------------
(* Heuristic optimal angles *)

\* Mutant of find_optimal_angles_simple: the equator is put in the southern
\* hemisphere (lat > 0 instead of lat >= 0).
find_optimal_angles_simple_StrictNorth(lat, lon, ghi_annual, tie_up) ==
    [ optimal_tilt    |-> Round1(RAdd(RMul(RAbs(lat), Rat(76, 100)), Rat(31, 10)), tie_up),
      optimal_azimuth |-> IF RLt(R(0), lat) THEN 180 ELSE 0 ]

\* src/solar_prediction_system/core/optimization.py: AngleOptimizer
find_optimal_angles_simple(lat, lon, ghi_annual, tie_up) ==
    LET optimal_tilt    == RAdd(RMul(RAbs(lat), Rat(76, 100)), Rat(31, 10))
        optimal_azimuth == IF RLe(R(0), lat) THEN 180 ELSE 0
    IN  [ optimal_tilt |-> Round1(optimal_tilt, tie_up), optimal_azimuth |-> optimal_azimuth ]

\* src/solar_prediction_system/core/solar_calculator.py: SolarCalculator
\* (albedo and system_efficiency are accepted and not used)
find_optimal_angles(lat, lon, ghi_annual, tie_up) ==
    LET optimal_tilt    == RAdd(RMul(RAbs(lat), Rat(76, 100)), Rat(31, 10))
        optimal_azimuth == IF RLe(R(0), lat) THEN 180 ELSE 0
    IN  [ optimal_tilt |-> Round1(optimal_tilt, tie_up), optimal_azimuth |-> optimal_azimuth ]

-----------------------------------------------------------------------------
(* Angle matrix *)

\* Python's range(start, stop, step) for step > 0, as a sequence.
PyRange(start, stop, step) ==
    LET n == IF stop <= start THEN 0 ELSE ((stop - start - 1) \div step) + 1
    IN  [k \in 1..n |-> start + (k - 1) * step]

\* Config.OPTIMIZATION_TILT_RANGE and Config.OPTIMIZATION_AZIMUTH_RANGE
OPTIMIZATION_TILT_RANGE == <<0, 90, 5>>

OPTIMIZATION_AZIMUTH_RANGE == <<90, 271, 10>>

(***************************************************************************)
(* calculate_pv_energy(...)['annual_energy'].  The yield is computed by    *)
(* the pvlib simulation, which is outside this model: a yield is kept as   *)
(* the call that produces it, so two cells hold the same value only when   *)
(* they come from the same (lat, lon, tilt, azimuth, ghi_annual).          *)
(***************************************************************************)
AnnualEnergy(lat, lon, tilt, azimuth, ghi_annual) ==
    [ lat |-> lat, lon |-> lon, tilt |-> tilt, azimuth |-> azimuth,
      ghi_annual |-> ghi_annual ]

\* The nested enumerate loops filling energy_matrix[i, j].
EnergyMatrix(lat, lon, ghi_annual, tilt_range, azimuth_range) ==
    [i \in 1..Len(tilt_range) |->
        [j \in 1..Len(azimuth_range) |->
            AnnualEnergy(lat, lon, tilt_range[i], azimuth_range[j], ghi_annual)]]

\* src/solar_prediction_system/core/solar_calculator.py
calculate_angle_matrix(lat, lon, ghi_annual) ==
    LET tilt_range    == PyRange(OPTIMIZATION_TILT_RANGE[1], OPTIMIZATION_TILT_RANGE[2],
                                 OPTIMIZATION_TILT_RANGE[3])
        azimuth_range == PyRange(OPTIMIZATION_AZIMUTH_RANGE[1], OPTIMIZATION_AZIMUTH_RANGE[2],
                                 OPTIMIZATION_AZIMUTH_RANGE[3])
    IN  [ energy_matrix |-> EnergyMatrix(lat, lon, ghi_annual, tilt_range, azimuth_range),
          tilt_range    |-> tilt_range,
          azimuth_range |-> azimuth_range ]

\* src/app.py: the matrix generate_angle_heatmap builds before it draws it.
generate_angle_heatmap(lat, lon, ghi_annual) ==
    LET tilts    == PyRange(0, 91, 5)
        azimuths == PyRange(90, 271, 10)
    IN  [ energy_matrix |-> EnergyMatrix(lat, lon, ghi_annual, tilts, azimuths),
          tilt_range    |-> tilts,
          azimuth_range |-> azimuths ]

-----------------------------------------------------------------------------
(* src/solar_prediction_system/core/weather_api.py: WeatherAPI *)

\* Config.KOREA_LAT_RANGE and Config.KOREA_LON_RANGE
KOREA_LAT_RANGE == <<R(33), R(38)>>

KOREA_LON_RANGE == <<R(126), R(130)>>

validate_coordinates(lat, lon) ==
    /\ RLe(R(-90), lat) /\ RLe(lat, R(90))
    /\ RLe(R(-180), lon) /\ RLe(lon, R(180))

is_korea_region(lat, lon) ==
    LET lat_min == KOREA_LAT_RANGE[1]
        lat_max == KOREA_LAT_RANGE[2]
        lon_min == KOREA_LON_RANGE[1]
        lon_max == KOREA_LON_RANGE[2]
    IN  /\ RLe(lat_min, lat) /\ RLe(lat, lat_max)
        /\ RLe(lon_min, lon) /\ RLe(lon, lon_max)

\* Mutant of get_fallback_ghi: the band limits belong to the southern band
\* (lat <= limit instead of lat < limit).
get_fallback_ghi_InclusiveBands(lat, lon) ==
    IF is_korea_region(lat, lon)
    THEN IF RLe(lat, Rat(345, 10)) THEN 1350
         ELSE IF RLe(lat, R(36)) THEN 1280
         ELSE IF RLe(lat, Rat(375, 10)) THEN 1220
         ELSE 1180
    ELSE 1200

get_fallback_ghi(lat, lon) ==
    IF is_korea_region(lat, lon)
    THEN IF RLt(lat, Rat(345, 10)) THEN 1350
         ELSE IF RLt(lat, R(36)) THEN 1280
         ELSE IF RLt(lat, Rat(375, 10)) THEN 1220
         ELSE 1180
    ELSE 1200

(***************************************************************************)
(* The weather fetch.  The NASA POWER service is the environment: a fetch  *)
(* is one of its outcomes, and for "ok" the annual GHI it answers.         *)
(*   request_error  requests.get raises (connection, timeout)              *)
(*   bad_status     raise_for_status raises                                *)
(*   unparsable     response.json() raises                                 *)
(*   missing_key    the body lacks properties/parameter/.../ANN            *)
(***************************************************************************)
FetchFailures == {"request_error", "bad_status", "unparsable", "missing_key"}

\* WeatherAPI.get_ghi_data: every exception of the try block returns None.
get_ghi_data(fetch) ==
    IF fetch.outcome = "ok" THEN Some(fetch.ghi) ELSE None

-----------------------------------------------------------------------------
(* src/solar_prediction_system/core/solar_calculator.py: calculate_pv_energy *)

ConfigFields ==
    {"albedo", "efficiency", "module_type", "tracking_type", "bifacial_factor",
     "inverter_efficiency", "losses", "temp_model", "racking_model"}

\* SolarCalculator._get_default_system_config, with the Config defaults.
_get_default_system_config ==
    [ albedo |-> Rat(2, 10), efficiency |-> Rat(85, 100), module_type |-> "standard",
      tracking_type |-> "fixed", bifacial_factor |-> R(0),
      inverter_efficiency |-> Rat(96, 100), losses |-> Rat(14, 100),
      temp_model |-> "sapm", racking_model |-> "open_rack" ]

\* Python's round(x, 2), as Round1 one digit further.
Round2(x, tie_up) ==
    IF IsErr(x) THEN ZDE
    ELSE LET whole == x.n \div x.d
             r     == x.n - whole * x.d
             cent  == (100 * r) \div x.d
             rest  == 100 * r - cent * x.d
             lo    == 100 * whole + cent
             up    == IF 2 * rest = x.d
                      THEN IF x.d = 8 THEN lo % 2 = 1 ELSE tie_up
                      ELSE 2 * rest > x.d
         IN  Rat(IF up THEN lo + 1 ELSE lo, 100)

RECURSIVE SumSeq(_, _)
SumSeq(s, k) == IF k = 0 THEN R(0) ELSE RAdd(SumSeq(s, k - 1), s[k])

\* The keys calculate_pv_energy subscripts system_config with.
KeysRead(cfg) ==
    {"tracking_type", "albedo", "bifacial_factor", "temp_model", "efficiency",
     "inverter_efficiency", "losses"}
    \cup (IF "temp_model" \in DOMAIN cfg /\ cfg["temp_model"] = "sapm"
          THEN {"racking_model"} ELSE {})

\* system_config[key] raises KeyError for a key the dictionary lacks.  What
\* pvlib itself does with the values (its table of racking models, its
\* irradiance functions) is pvlib's; the model takes its calls to return.
PvEnergyRaises(cfg) == ~(KeysRead(cfg) \subseteq DOMAIN cfg)

(***************************************************************************)
(* calculate_pv_energy.  The hourly pvlib simulation is outside the model: *)
(* sim holds what it hands back, summed by month: poa_global after         *)
(* fillna(0).clip(min=0), poa_ground_diffuse, and temp_factor after        *)
(* clip(0.7, 1.1), taken as one value for the year.                        *)
(***************************************************************************)
calculate_pv_energy(lat, lon, tilt, azimuth, ghi_annual, system_config, sim, tie_up) ==
    LET cfg == IF system_config.none THEN _get_default_system_config
               ELSE system_config.v
    IN  IF PvEnergyRaises(cfg) THEN [raised |-> TRUE]
        ELSE
        LET poa_global ==
                [m \in 1..12 |->
                    IF RLt(R(0), cfg["bifacial_factor"])
                    THEN RAdd(sim.poa_global[m],
                              RMul(sim.poa_ground_diffuse[m], cfg["bifacial_factor"]))
                    ELSE sim.poa_global[m]]
            total_efficiency ==
                RMul(RMul(RMul(cfg["efficiency"], cfg["inverter_efficiency"]),
                          RSub(R(1), cfg["losses"])),
                     sim.temp_factor)
            monthly_energy ==
                [m \in 1..12 |-> RDiv(RMul(poa_global[m], total_efficiency), R(1000))]
            annual_energy == SumSeq(monthly_energy, 12)
            best == find_optimal_angles(lat, lon, ghi_annual, tie_up)
        IN  [ raised          |-> FALSE,
              annual_energy   |-> Round1(annual_energy, tie_up),
              monthly_energy  |-> monthly_energy,
              temp_effect     |-> Round2(RMul(RSub(sim.temp_factor, R(1)), R(100)), tie_up),
              optimal_tilt    |-> best.optimal_tilt,
              optimal_azimuth |-> best.optimal_azimuth ]

-----------------------------------------------------------------------------
(* Request handlers of the yield estimate *)

\* request.args.get(name, type=float): None when the parameter is absent.
ArgOr(x, default) == IF x.none THEN default ELSE x.v

\* "not lat": the parameter is absent, or it is 0.
NotGiven(x) == x.none \/ Falsy(x.v)

\* src/solar_prediction_system/web/routes/api_routes.py: /pv_data
get_pv_data(req) ==
    LET tilt    == ArgOr(req.tilt, R(30))
        azimuth == ArgOr(req.azimuth, R(180))
    IN  IF NotGiven(req.lat) \/ NotGiven(req.lon)
        THEN [status |-> 400, error |-> "coordinates missing",
              fetch_started |-> FALSE, yield_started |-> FALSE]
        ELSE IF ~validate_coordinates(req.lat.v, req.lon.v)
        THEN [status |-> 400, error |-> "coordinates invalid",
              fetch_started |-> FALSE, yield_started |-> FALSE]
        ELSE
        LET lat     == req.lat.v
            lon     == req.lon.v
            fetched == get_ghi_data(req.fetch)
            ghi     == IF fetched.none THEN R(get_fallback_ghi(lat, lon)) ELSE fetched.v
            pv_result == calculate_pv_energy(lat, lon, tilt, azimuth, ghi,
                                             req.system_config, req.sim, req.tie_up)
        IN  IF pv_result.raised
            THEN [status |-> 500, error |-> "calculation error",
                  fetch_started |-> TRUE, yield_started |-> TRUE]
            ELSE [status |-> 200, success |-> TRUE,
                  fetch_started |-> TRUE, yield_started |-> TRUE,
                  ghi_used |-> ghi,
                  ghi |-> Round1(ghi, req.tie_up),
                  energy |-> pv_result.annual_energy,
                  monthly_energy |-> pv_result.monthly_energy,
                  temp_effect |-> pv_result.temp_effect,
                  optimal_tilt |-> pv_result.optimal_tilt,
                  optimal_azimuth |-> pv_result.optimal_azimuth]

\* src/app.py: /get_advanced_pv_data.  The fetch is the handler's own
\* requests.get(url).json()[...]; without coordinates pvlib has no location
\* to compute and the calculation raises.
get_advanced_pv_data(req) ==
    LET tilt    == ArgOr(req.tilt, R(30))
        azimuth == ArgOr(req.azimuth, R(180))
    IN  IF req.fetch.outcome # "ok"
        THEN [status |-> 500, error |-> "GHI data not found",
              fetch_started |-> TRUE, yield_started |-> FALSE]
        ELSE IF req.lat.none \/ req.lon.none
        THEN [status |-> 500, error |-> "PV calculation error",
              fetch_started |-> TRUE, yield_started |-> TRUE]
        ELSE
        LET ghi == req.fetch.ghi
            pv_result == calculate_pv_energy(req.lat.v, req.lon.v, tilt, azimuth, ghi,
                                             req.system_config, req.sim, req.tie_up)
        IN  IF pv_result.raised
            THEN [status |-> 500, error |-> "PV calculation error",
                  fetch_started |-> TRUE, yield_started |-> TRUE]
            ELSE [status |-> 200,
                  fetch_started |-> TRUE, yield_started |-> TRUE,
                  ghi_used |-> ghi,
                  ghi |-> Round1(ghi, req.tie_up),
                  energy |-> pv_result.annual_energy,
                  monthly_energy |-> pv_result.monthly_energy,
                  temp_effect |-> pv_result.temp_effect,
                  optimal_tilt |-> pv_result.optimal_tilt,
                  optimal_azimuth |-> pv_result.optimal_azimuth]

-----------------------------------------------------------------------------
(* The empirical yield estimator.  Its code is not part of the sources at    *)
(* hand; the definitions below follow its written specification.             *)

\* total_efficiency = module_efficiency(0.20) * inverter_efficiency(0.96)
\*                    * (1 - system_losses(0.14))
EmpiricalTotalEfficiency == RMul(RMul(Rat(20, 100), Rat(96, 100)), RSub(R(1), Rat(14, 100)))

\* latitude_factor = 1.0 + (lat - 35.5) * 0.01 if 33 <= lat <= 38, else 1.0
LatitudeFactor(lat) ==
    IF RLe(R(33), lat) /\ RLe(lat, R(38))
    THEN RAdd(R(1), RMul(RSub(lat, Rat(355, 10)), Rat(1, 100)))
    ELSE R(1)

\* The seasonal vector, normalised so that its mean is 1.
NormalizedSeasonal(v) == [m \in 1..12 |-> RDiv(RMul(v[m], R(12)), SumSeq(v, 12))]

\* The primary tier: steps 1 to 9 of the empirical algorithm.
EmpiricalPrimary(a) ==
    LET optimal_tilt    == RAdd(RMul(RAbs(a.lat), Rat(76, 100)), Rat(31, 10))
        optimal_azimuth == IF RLe(R(0), a.lat) THEN R(180) ELSE R(0)
        tilt_factor     == TiltEfficiency(a.tilt, optimal_tilt)
        azimuth_factor  == AzimuthEfficiency(AzimuthDiff(a.azimuth, optimal_azimuth))
        annual_energy   ==
            RMul(RMul(RMul(RMul(RMul(a.ghi_annual, EmpiricalTotalEfficiency),
                                tilt_factor), azimuth_factor),
                      LatitudeFactor(a.lat)), Rat(94, 100))
        seasonal        == NormalizedSeasonal(a.seasonal)
    IN  [ raised |-> FALSE, tier |-> "Primary",
          annual_energy   |-> annual_energy,
          monthly_energy  |-> [m \in 1..12 |->
                                  RMul(RDiv(annual_energy, R(12)), seasonal[m])],
          temp_effect     |-> RAdd(R(-6), RMul(RSub(a.lat, R(36)), Rat(3, 10))),
          optimal_tilt    |-> optimal_tilt,
          optimal_azimuth |-> optimal_azimuth ]

\* The simplified variant: the same structure with one coarse efficiency
\* (the constant is not fixed by the specification and is drawn as an input).
calculate_simple_pv_energy(a) ==
    LET optimal_tilt    == RAdd(RMul(RAbs(a.lat), Rat(76, 100)), Rat(31, 10))
        optimal_azimuth == IF RLe(R(0), a.lat) THEN R(180) ELSE R(0)
        annual_energy   ==
            RMul(RMul(RMul(a.ghi_annual, a.coarse_efficiency),
                      TiltEfficiency(a.tilt, optimal_tilt)),
                 AzimuthEfficiency(AzimuthDiff(a.azimuth, optimal_azimuth)))
    IN  [ raised |-> FALSE, tier |-> "Fallback",
          annual_energy   |-> annual_energy,
          monthly_energy  |-> [m \in 1..12 |-> RDiv(annual_energy, R(12))],
          temp_effect     |-> RAdd(R(-6), RMul(RSub(a.lat, R(36)), Rat(3, 10))),
          optimal_tilt    |-> optimal_tilt,
          optimal_azimuth |-> optimal_azimuth ]

\* The last resort: annual_energy = ghi_annual * 0.15, flat monthly split,
\* temp_effect = -5.0, optimal_tilt = 30, optimal_azimuth = 180.
EmpiricalLastResort(a) ==
    LET annual_energy == RMul(a.ghi_annual, Rat(15, 100))
    IN  [ raised |-> FALSE, tier |-> "LastResort",
          annual_energy   |-> annual_energy,
          monthly_energy  |-> [m \in 1..12 |-> RDiv(annual_energy, R(12))],
          temp_effect     |-> R(-5),
          optimal_tilt    |-> R(30),
          optimal_azimuth |-> R(180) ]

\* Mutant of estimate: a failure of the primary tier goes straight to the
\* last resort.
estimate_SkipsFallback(a) ==
    IF ~a.primary_fails THEN EmpiricalPrimary(a) ELSE EmpiricalLastResort(a)

\* estimate(lat, lon, tilt, azimuth, ghi_annual): try the primary formula;
\* on any exception try the simplified variant; if that fails as well, return
\* the last-resort estimate.
estimate(a) ==
    IF ~a.primary_fails THEN EmpiricalPrimary(a)
    ELSE IF ~a.fallback_fails THEN calculate_simple_pv_energy(a)
    ELSE EmpiricalLastResort(a)

-----------------------------------------------------------------------------
(* Numeric angle optimisation *)

\* A value handed to the optimizer: the penalty 10000, or the negated
\* annual energy of one yield calculation.
Penalty == [kind |-> "penalty", number |-> 10000]

Negated(energy) == [kind |-> "negated", of |-> energy]

\* "not (0 <= tilt <= 90) or not (0 <= azimuth <= 360)"
OutOfBounds(tilt, azimuth) ==
    \/ ~(RLe(R(0), tilt) /\ RLe(tilt, R(90)))
    \/ ~(RLe(R(0), azimuth) /\ RLe(azimuth, R(360)))

\* AngleOptimizer.find_optimal_angles_detailed.objective_function: a yield
\* calculation that raises is answered with the penalty.
AngleOptimizer_objective_function(lat, lon, ghi_annual, tilt, azimuth, yield_raises) ==
    IF OutOfBounds(tilt, azimuth)
    THEN [raised |-> FALSE, yield_called |-> FALSE, value |-> Penalty]
    ELSE IF yield_raises
    THEN [raised |-> FALSE, yield_called |-> TRUE, value |-> Penalty]
    ELSE [raised |-> FALSE, yield_called |-> TRUE,
          value |-> Negated(AnnualEnergy(lat, lon, tilt, azimuth, ghi_annual))]

\* Mutant of SolarCalculator_objective_function: the azimuth is not tested.
SolarCalculator_objective_function_TiltOnly(lat, lon, ghi_annual, tilt, azimuth, yield_raises) ==
    IF ~(RLe(R(0), tilt) /\ RLe(tilt, R(90)))
    THEN [raised |-> FALSE, yield_called |-> FALSE, value |-> Penalty]
    ELSE IF yield_raises
    THEN [raised |-> TRUE, yield_called |-> TRUE]
    ELSE [raised |-> FALSE, yield_called |-> TRUE,
          value |-> Negated(AnnualEnergy(lat, lon, tilt, azimuth, ghi_annual))]

\* SolarCalculator.find_optimal_angles_detailed.objective_function: nothing
\* is caught.
SolarCalculator_objective_function(lat, lon, ghi_annual, tilt, azimuth, yield_raises) ==
    IF OutOfBounds(tilt, azimuth)
    THEN [raised |-> FALSE, yield_called |-> FALSE, value |-> Penalty]
    ELSE IF yield_raises
    THEN [raised |-> TRUE, yield_called |-> TRUE]
    ELSE [raised |-> FALSE, yield_called |-> TRUE,
          value |-> Negated(AnnualEnergy(lat, lon, tilt, azimuth, ghi_annual))]

\* The heuristic angles with the yield at those angles; the yield
\* calculation may raise.
HeuristicWithYield(h, lat, lon, ghi_annual, yield_raises) ==
    IF yield_raises THEN [raised |-> TRUE]
    ELSE [ raised |-> FALSE, tilt |-> h.optimal_tilt, azimuth |-> R(h.optimal_azimuth),
           has_energy |-> TRUE,
           energy |-> AnnualEnergy(lat, lon, h.optimal_tilt, R(h.optimal_azimuth),
                                   ghi_annual) ]

\* AngleOptimizer.find_optimal_angles_detailed.  a.optimizer is what
\* minimize / differential_evolution does: it reports success with a.x, it
\* reports failure, or it raises.  The objective never raises: when every
\* yield calculation raises, the optimum it reports is the penalty.  The yield of
\* the heuristic angles is computed inside the try block and again in the
\* except block, so a yield calculation that raises there leaves the call.
AngleOptimizer_find_optimal_angles_detailed(a) ==
    LET h == find_optimal_angles_simple(a.lat, a.lon, a.ghi_annual, a.tie_up)
    IN  IF a.optimizer = "success"
        THEN [ raised |-> FALSE, tilt |-> Round1(a.x.tilt, a.tie_up),
               azimuth |-> Round1(a.x.azimuth, a.tie_up), has_energy |-> TRUE,
               energy |-> IF a.yield_raises_objective
                          THEN [kind |-> "number", number |-> -10000]
                          ELSE AnnualEnergy(a.lat, a.lon, a.x.tilt, a.x.azimuth,
                                            a.ghi_annual) ]
        ELSE HeuristicWithYield(h, a.lat, a.lon, a.ghi_annual, a.yield_raises_fallback)

\* SolarCalculator.find_optimal_angles_detailed.  minimize evaluates the
\* objective at x0, which lies inside the bounds; there is no try block, so
\* an exception of the objective or of minimize leaves the call.  When the
\* optimizer reports failure the two heuristic angles are returned alone.
SolarCalculator_find_optimal_angles_detailed(a) ==
    LET x0    == [ tilt    |-> RAdd(RMul(RAbs(a.lat), Rat(76, 100)), Rat(31, 10)),
                   azimuth |-> IF RLe(R(0), a.lat) THEN R(180) ELSE R(0) ]
        first == SolarCalculator_objective_function(a.lat, a.lon, a.ghi_annual,
                     x0.tilt, x0.azimuth, a.yield_raises_objective)
        h     == find_optimal_angles(a.lat, a.lon, a.ghi_annual, a.tie_up)
    IN  IF first.raised \/ a.optimizer = "raises"
        THEN [raised |-> TRUE]
        ELSE IF a.optimizer = "success"
        THEN [ raised |-> FALSE, tilt |-> Round1(a.x.tilt, a.tie_up),
               azimuth |-> Round1(a.x.azimuth, a.tie_up), has_energy |-> FALSE ]
        ELSE [ raised |-> FALSE, tilt |-> h.optimal_tilt,
               azimuth |-> R(h.optimal_azimuth), has_energy |-> FALSE ]

-----------------------------------------------------------------------------
(* Request handlers that take coordinates without validating them *)

\* "ghi = get_ghi_data(lat, lon); if ghi is None: ghi = get_fallback_ghi(...)"
GhiOrFallback(fetch, lat, lon) ==
    LET fetched == get_ghi_data(fetch)
    IN  IF fetched.none THEN R(get_fallback_ghi(lat, lon)) ELSE fetched.v

\* src/solar_prediction_system/web/routes/api_routes.py: /optimize_angles
optimize_angles(req) ==
    IF NotGiven(req.lat) \/ NotGiven(req.lon)
    THEN [status |-> 400, error |-> "coordinates missing",
          fetch_started |-> FALSE, yield_started |-> FALSE]
    ELSE
    LET lat == req.lat.v
        lon == req.lon.v
        ghi == GhiOrFallback(req.fetch, lat, lon)
    IN  IF req.method = "detailed"
        THEN LET d == AngleOptimizer_find_optimal_angles_detailed(
                          [ lat |-> lat, lon |-> lon, ghi_annual |-> ghi,
                            optimizer |-> req.optimizer, x |-> req.x,
                            yield_raises_objective |-> FALSE,
                            yield_raises_fallback |-> req.yield_raises,
                            tie_up |-> req.tie_up ])
             IN  IF d.raised
                 THEN [status |-> 500, error |-> "optimization error",
                       fetch_started |-> TRUE, yield_started |-> TRUE]
                 ELSE [status |-> 200, success |-> TRUE,
                       fetch_started |-> TRUE, yield_started |-> TRUE,
                       ghi_used |-> ghi, optimal_tilt |-> d.tilt,
                       optimal_azimuth |-> d.azimuth, max_energy |-> d.energy]
        ELSE LET h == find_optimal_angles_simple(lat, lon, ghi, req.tie_up)
             IN  IF req.yield_raises
                 THEN [status |-> 500, error |-> "optimization error",
                       fetch_started |-> TRUE, yield_started |-> TRUE]
                 ELSE [status |-> 200, success |-> TRUE,
                       fetch_started |-> TRUE, yield_started |-> TRUE,
                       ghi_used |-> ghi, optimal_tilt |-> h.optimal_tilt,
                       optimal_azimuth |-> R(h.optimal_azimuth),
                       max_energy |-> AnnualEnergy(lat, lon, h.optimal_tilt,
                                                   R(h.optimal_azimuth), ghi)]

\* src/solar_prediction_system/web/routes/api_routes.py: /sensitivity_analysis.
\* "not all([lat, lon, optimal_tilt is not None, optimal_azimuth is not None])"
\* The analysis is kept as the call that produces it.
sensitivity_analysis(req) ==
    IF NotGiven(req.lat) \/ NotGiven(req.lon)
       \/ req.optimal_tilt.none \/ req.optimal_azimuth.none
    THEN [status |-> 400, error |-> "parameters missing",
          fetch_started |-> FALSE, yield_started |-> FALSE]
    ELSE
    LET lat == req.lat.v
        lon == req.lon.v
        ghi == GhiOrFallback(req.fetch, lat, lon)
    IN  IF req.yield_raises
        THEN [status |-> 500, error |-> "sensitivity error",
              fetch_started |-> TRUE, yield_started |-> TRUE]
        ELSE [status |-> 200, success |-> TRUE,
              fetch_started |-> TRUE, yield_started |-> TRUE, ghi_used |-> ghi,
              calculate_angle_sensitivity |->
                  [ lat |-> lat, lon |-> lon, ghi_annual |-> ghi,
                    optimal_tilt |-> req.optimal_tilt.v,
                    optimal_azimuth |-> req.optimal_azimuth.v ]]

\* src/solar_prediction_system/web/routes/api_routes.py: /charts/angle_heatmap
get_angle_heatmap_chart(req) ==
    IF NotGiven(req.lat) \/ NotGiven(req.lon)
    THEN [status |-> 400, error |-> "coordinates missing",
          fetch_started |-> FALSE, yield_started |-> FALSE]
    ELSE
    LET lat == req.lat.v
        lon == req.lon.v
        ghi == GhiOrFallback(req.fetch, lat, lon)
    IN  IF req.yield_raises
        THEN [status |-> 500, error |-> "heatmap error",
              fetch_started |-> TRUE, yield_started |-> TRUE]
        ELSE [status |-> 200,
              fetch_started |-> TRUE, yield_started |-> TRUE, ghi_used |-> ghi,
              image_of |-> calculate_angle_matrix(lat, lon, ghi)]

\* src/solar_prediction_system/web/routes/download_routes.py: /download/data
\* for data_type = yearly and period = 1, where the one row is the annual
\* energy itself (year_variation = 1.0 + sin(0) * 0.05).
download_data(req) ==
    IF NotGiven(req.lat) \/ NotGiven(req.lon)
    THEN [status |-> 400, error |-> "coordinates missing",
          fetch_started |-> FALSE, yield_started |-> FALSE]
    ELSE
    LET lat == req.lat.v
        lon == req.lon.v
        ghi == GhiOrFallback(req.fetch, lat, lon)
        optimal_tilt    == RAdd(RMul(RAbs(lat), Rat(76, 100)), Rat(31, 10))
        optimal_azimuth == IF RLe(R(0), lat) THEN R(180) ELSE R(0)
    IN  IF req.yield_raises
        THEN [status |-> 500, error |-> "data generation error",
              fetch_started |-> TRUE, yield_started |-> TRUE]
        ELSE IF req.format \notin {"csv", "json", "excel"}
        THEN [status |-> 400, error |-> "unsupported format",
              fetch_started |-> TRUE, yield_started |-> TRUE]
        ELSE [status |-> 200, format |-> req.format,
              fetch_started |-> TRUE, yield_started |-> TRUE, ghi_used |-> ghi,
              rows |-> << [year |-> 2023,
                           energy |-> AnnualEnergy(lat, lon, optimal_tilt,
                                                   optimal_azimuth, ghi)] >>]

\* src/solar_prediction_system/web/routes/api_routes.py: /financial_analysis
financial_analysis(req) ==
    IF req.annual_energy.none \/ req.annual_energy.v = 0
    THEN [status |-> 400, error |-> "annual energy missing"]
    ELSE
    LET r == calculate_financial_metrics(
                 [ system_size |-> req.system_size, annual_energy |-> req.annual_energy.v,
                   install_cost_per_kw |-> req.install_cost,
                   electricity_price |-> req.electricity_price,
                   annual_degradation |-> req.annual_degradation,
                   lifetime |-> req.lifetime, tie_up |-> req.tie_up ])
    IN  IF r.raised
        THEN [status |-> 500, error |-> "financial analysis error"]
        ELSE [status |-> 200, success |-> TRUE, result |-> r]

-----------------------------------------------------------------------------
(* FinancialAnalyzer: net present value and internal rate of return *)

\* Mutant of NpvLoop: the cumulative entries themselves are discounted.
RECURSIVE NpvLoop_Cumulative(_, _, _)
NpvLoop_Cumulative(cash_flows, discount_rate, year) ==
    IF year = 0 THEN At(cash_flows, 0)
    ELSE RAdd(NpvLoop_Cumulative(cash_flows, discount_rate, year - 1),
              RDiv(At(cash_flows, year), RPow(RAdd(R(1), discount_rate), year)))

\* The loop of _calculate_npv up to and including the given year:
\*   npv = cash_flows[0]
\*   annual_cash_flow = cash_flows[year] - cash_flows[year-1]
\*   npv += annual_cash_flow / ((1 + discount_rate) ** year)
RECURSIVE NpvLoop(_, _, _)
NpvLoop(cash_flows, discount_rate, year) ==
    IF year = 0 THEN At(cash_flows, 0)
    ELSE RAdd(NpvLoop(cash_flows, discount_rate, year - 1),
              RDiv(RSub(At(cash_flows, year), At(cash_flows, year - 1)),
                   RPow(RAdd(R(1), discount_rate), year)))

_calculate_npv(cash_flows, discount_rate) ==
    NpvLoop(cash_flows, discount_rate, Len(cash_flows) - 1)

\* _calculate_irr.npv_at_rate: the same loop, written out a second time in
\* the source.
RECURSIVE IrrNpvLoop(_, _, _)
IrrNpvLoop(cash_flows, rate, year) ==
    IF year = 0 THEN At(cash_flows, 0)
    ELSE RAdd(IrrNpvLoop(cash_flows, rate, year - 1),
              RDiv(RSub(At(cash_flows, year), At(cash_flows, year - 1)),
                   RPow(RAdd(R(1), rate), year)))

npv_at_rate(cash_flows, rate) == IrrNpvLoop(cash_flows, rate, Len(cash_flows) - 1)

(***************************************************************************)
(* _calculate_irr bisects [0.0, 1.0] in floats.  The rates it can reach    *)
(* while the NPV keeps one sign are 2^-e (the upper end coming down) and   *)
(* 1 - 2^-e (the lower end going up); they are kept as [side, e]:          *)
(*   [side |-> "down", e |-> e]  is  2^-e        (e = 0: 1.0)              *)
(*   [side |-> "up",   e |-> e]  is  1 - 2^-e    (e = 0: 0.0)              *)
(* A double holds 53 significant bits: 1 - 2^-e is a float up to e = 53,   *)
(* and (low + high) / 2 with low = 1 - 2^-53, high = 1.0 rounds to 1.0.    *)
(* 2^-e is a float for every e up to 100.                                  *)
(***************************************************************************)
IrrMaxIterations == 100

IrrTolerance == 1000

FloatMantissaBits == 53

\* Rates whose NPV the model computes exactly: 1/4, 1/2, 3/4.
IrrExactBits == 2

FloatZero == [side |-> "up", e |-> 0]

FloatOne == [side |-> "down", e |-> 0]

\* mid = (low + high) / 2 for a bracket with one end still at its start.
\* Other brackets are outside the model ("mixed").
Mid(low, high) ==
    IF low = FloatZero THEN [side |-> "down", e |-> high.e + 1]
    ELSE IF high = FloatOne /\ low = FloatOne THEN FloatOne
    ELSE IF high = FloatOne /\ (low.side = "up" \/ low.e = 1)
    THEN IF low.e + 1 > FloatMantissaBits THEN FloatOne
         ELSE [side |-> "up", e |-> low.e + 1]
    ELSE [side |-> "mixed", e |-> 0]

\* The rate as a fraction, for the rates computed exactly.
RateOf(mid) ==
    IF mid.side = "down" THEN Rat(1, IPow(2, mid.e))
    ELSE Rat(IPow(2, mid.e) - 1, IPow(2, mid.e))

\* Bounds of npv_at_rate over the rates 0 <= rate <= 1, where
\* 1/2^year <= 1 / (1 + rate) ** year <= 1: every yearly amount counted at
\* its least, and at its most.
RECURSIVE NpvFloor(_, _)
NpvFloor(cash_flows, year) ==
    IF year = 0 THEN At(cash_flows, 0)
    ELSE LET a == RSub(At(cash_flows, year), At(cash_flows, year - 1))
         IN  RAdd(NpvFloor(cash_flows, year - 1),
                  IF RLe(R(0), a) THEN RDiv(a, R(IPow(2, year))) ELSE a)

RECURSIVE NpvCeiling(_, _)
NpvCeiling(cash_flows, year) ==
    IF year = 0 THEN At(cash_flows, 0)
    ELSE LET a == RSub(At(cash_flows, year), At(cash_flows, year - 1))
         IN  RAdd(NpvCeiling(cash_flows, year - 1),
                  IF RLe(R(0), a) THEN a ELSE RDiv(a, R(IPow(2, year))))

\* What the loop body sees at rate mid: "close" (abs(npv) < 1000),
\* "positive" (npv > 0) or "nonpositive"; "unknown" where the model cannot
\* tell.
NpvOutcome(cash_flows, mid) ==
    LET years == Len(cash_flows) - 1
    IN  IF RLe(R(IrrTolerance), NpvFloor(cash_flows, years)) THEN "positive"
        ELSE IF RLe(NpvCeiling(cash_flows, years), R(-IrrTolerance)) THEN "nonpositive"
        ELSE IF mid.side # "mixed" /\ mid.e >= 1 /\ mid.e <= IrrExactBits
        THEN LET npv == npv_at_rate(cash_flows, RateOf(mid))
             IN  IF RLt(RAbs(npv), R(IrrTolerance)) THEN "close"
                 ELSE IF RLt(R(0), npv) THEN "positive" ELSE "nonpositive"
        ELSE "unknown"

\* NPV at or below -1000 at every rate in [0, 1]; at or above 1000 at every
\* rate in [0, 1].
NeverProfitable(cash_flows) ==
    RLe(NpvCeiling(cash_flows, Len(cash_flows) - 1), R(-IrrTolerance))

AlwaysProfitable(cash_flows) ==
    RLe(R(IrrTolerance), NpvFloor(cash_flows, Len(cash_flows) - 1))

\* "low, high = 0.0, 1.0": the loop is about to run iteration 1.
IrrStart == [low |-> FloatZero, high |-> FloatOne, i |-> 1]

\* One iteration of "for _ in range(100)" in the loop state st, and the
\* return after the last one.  "mid * 100 < 100" fails only for mid = 1.0.
IrrIteration(cash_flows, st) ==
    LET mid == Mid(st.low, st.high)
        o   == NpvOutcome(cash_flows, mid)
    IN  IF o = "close"
        THEN [returned |-> TRUE, none |-> FALSE, percent_of |-> mid,
              steps |-> st.i, converged |-> TRUE]
        ELSE IF st.i = IrrMaxIterations
        THEN [returned |-> TRUE, none |-> (mid = FloatOne), percent_of |-> mid,
              steps |-> st.i, converged |-> FALSE]
        ELSE [returned |-> FALSE,
              low  |-> IF o = "positive" THEN mid ELSE st.low,
              high |-> IF o = "positive" THEN st.high ELSE mid,
              i    |-> st.i + 1]

\* The schedules whose bisection the model can follow: the sign of the NPV
\* is settled for all rates, or a rate among 1/2, 1/4, 3/4 is close enough.
IrrFollowable(cash_flows) ==
    LET half == NpvOutcome(cash_flows, [side |-> "down", e |-> 1])
    IN  \/ NeverProfitable(cash_flows)
        \/ AlwaysProfitable(cash_flows)
        \/ half = "close"
        \/ half = "positive" /\ NpvOutcome(cash_flows, [side |-> "up", e |-> 2]) = "close"
        \/ half = "nonpositive"
              /\ NpvOutcome(cash_flows, [side |-> "down", e |-> 2]) = "close"

-----------------------------------------------------------------------------
(* SolarCalculator._generate_hourly_ghi *)

\* config.MONTHLY_GHI_RATIO
MONTHLY_GHI_RATIO ==
    << Rat(6, 10), Rat(7, 10), Rat(9, 10), Rat(11, 10), Rat(12, 10), Rat(11, 10),
       R(1), Rat(11, 10), R(1), Rat(9, 10), Rat(7, 10), Rat(6, 10) >>

\* monthly_ratio / monthly_ratio.mean()
NormalizedMonthlyRatio(m) ==
    RDiv(MONTHLY_GHI_RATIO[m], RDiv(SumSeq(MONTHLY_GHI_RATIO, 12), R(12)))

\* Days of the months of 2023, the year of pd.date_range.
DaysInMonth == <<31, 28, 31, 30, 31, 30, 31, 31, 30, 31, 30, 31>>

\* np.sin(np.pi * hour / 24) ** 2 for the hours 6..18, to two decimals.
SinSquared ==
    [h \in 6..18 |->
        CASE h \in {6, 18}  -> Rat(50, 100)
          [] h \in {7, 17}  -> Rat(63, 100)
          [] h \in {8, 16}  -> Rat(75, 100)
          [] h \in {9, 15}  -> Rat(85, 100)
          [] h \in {10, 14} -> Rat(93, 100)
          [] h \in {11, 13} -> Rat(98, 100)
          [] h = 12         -> R(1)]

\* daily_pattern with "daily_pattern[times.hour < 6] = 0" and
\* "daily_pattern[times.hour > 18] = 0", for one hour of the day (0..23).
DailyPattern(hour) == IF hour < 6 \/ hour > 18 THEN R(0) ELSE SinSquared[hour]

\* The pattern over one day.
RECURSIVE DailyPatternDaySum(_)
DailyPatternDaySum(hour) ==
    IF hour < 0 THEN R(0) ELSE RAdd(DailyPatternDaySum(hour - 1), DailyPattern(hour))

\* daily_pattern.sum(): daily_pattern has one entry per hour of the year, so
\* the sum runs over all 365 days.
DailyPatternSum == RMul(R(365), DailyPatternDaySum(23))

\* hourly_ghi = ghi_annual / 365 / daily_pattern.sum() * 24
\* hourly_ghi = hourly_ghi * monthly_ratio[month_indices] * daily_pattern * 24
\* The value depends on the month and the hour of the day only.
_generate_hourly_ghi(ghi_annual) ==
    LET hourly_ghi == RMul(RDiv(RDiv(ghi_annual, R(365)), DailyPatternSum), R(24))
    IN  [m \in 1..12 |->
            [h \in 0..23 |->
                RMul(RMul(RMul(hourly_ghi, NormalizedMonthlyRatio(m)),
                          DailyPattern(h)), R(24))]]

-----------------------------------------------------------------------------
(* AngleOptimizer.calculate_angle_sensitivity *)

\* np.arange(start, stop, step) for step > 0: start + i * step for
\* i = 0 .. ceil((stop - start) / step) - 1.
ARange(start, stop, step) ==
    LET n == RCeil(RDiv(RSub(stop, start), step))
    IN  [i \in 1..(IF n > 0 THEN n ELSE 0) |-> RAdd(start, RMul(R(i - 1), step))]

\* calculate_pv_energy(...)['annual_energy'] as a number.  The simulation is
\* outside the model; its yield is taken proportional to ghi_annual (zero for
\* GHI zero), the same in every direction ("flat") or falling off with the
\* distance from tilt 30 and azimuth 180 ("peaked").
SimulatedYield(shape, ghi_annual, tilt, azimuth) ==
    IF shape = "flat" THEN ghi_annual
    ELSE RMul(ghi_annual,
              RSub(R(1), RDiv(RAdd(RAbs(RSub(tilt, R(30))), RAbs(RSub(azimuth, R(180)))),
                              R(1000))))

\* loss_percent = (1 - energy / energy_at_optimum) * 100, then round(.., 2).
\* With a zero yield at the optimum the division is 0 / 0: ZeroDivisionError
\* for Python floats, nan for numpy floats; both are the value ZDE here.
LossPercent(energy, optimum_energy, tie_up) ==
    Round2(RMul(RSub(R(1), RDiv(energy, optimum_energy)), R(100)), tie_up)

\* np.arange(max(0, optimal_tilt - 10), min(90, optimal_tilt + 11), 2)
TiltVariations(optimal_tilt) ==
    ARange(RMax(R(0), RSub(optimal_tilt, R(10))),
           RMin(R(90), RAdd(optimal_tilt, R(11))), R(2))

\* np.arange(max(0, optimal_azimuth - 30), min(360, optimal_azimuth + 31), 5)
AzimuthVariations(optimal_azimuth) ==
    ARange(RMax(R(0), RSub(optimal_azimuth, R(30))),
           RMin(R(360), RAdd(optimal_azimuth, R(31))), R(5))

calculate_angle_sensitivity(a) ==
    LET optimum == SimulatedYield(a.shape, a.ghi_annual, a.optimal_tilt, a.optimal_azimuth)
        tilts    == TiltVariations(a.optimal_tilt)
        azimuths == AzimuthVariations(a.optimal_azimuth)
    IN  [ tilt_sensitivity |->
              [i \in DOMAIN tilts |->
                  LET energy == SimulatedYield(a.shape, a.ghi_annual, tilts[i],
                                               a.optimal_azimuth)
                  IN  [ angle |-> tilts[i], energy |-> energy,
                        loss_percent |-> LossPercent(energy, optimum, a.tie_up) ]],
          azimuth_sensitivity |->
              [j \in DOMAIN azimuths |->
                  LET energy == SimulatedYield(a.shape, a.ghi_annual, a.optimal_tilt,
                                               azimuths[j])
                  IN  [ angle |-> azimuths[j], energy |-> energy,
                        loss_percent |-> LossPercent(energy, optimum, a.tie_up) ]] ]

-----------------------------------------------------------------------------
(* FinancialAnalyzer.sensitivity_analysis *)

\* The loop "while current <= end" runs as long as step does not carry
\* current past end.  results is kept exactly up to MaxKeptResults entries;
\* beyond that only the fact that more were appended (more) and whether
\* their number is odd (odd) are kept.
MaxKeptResults == 5

\* "results = []; start, end, step = variation_range; current = start".
\* base_scenario is the caller's dictionary, which the call can reach.
SensitivityStart(a) ==
    [ current |-> a.start, results |-> <<>>, more |-> FALSE, odd |-> FALSE,
      base_scenario |-> a.base_scenario ]

\* One pass of the loop body: "scenario = base_scenario.copy();
\* scenario[variable] = current; result = calculate_financial_metrics(
\* **scenario); result[variable] = current; results.append(result);
\* current += step".  The metrics are a function of the scenario alone; a
\* result is kept as the scenario it is computed from (metrics_of) with the
\* varied key and its value.
SensitivityBody(a, st) ==
    LET scenario == [st.base_scenario EXCEPT ![a.variable] = st.current]
        result   == [ metrics_of |-> scenario,
                      variable |-> a.variable, value |-> st.current ]
    IN  [ current |-> st.current + a.step,
          results |-> IF Len(st.results) < MaxKeptResults
                      THEN Append(st.results, result) ELSE st.results,
          more |-> st.more \/ Len(st.results) >= MaxKeptResults,
          odd  |-> IF Len(st.results) >= MaxKeptResults THEN ~st.odd ELSE st.odd,
          base_scenario |-> st.base_scenario ]

-----------------------------------------------------------------------------
(* FinancialAnalyzer.compare_scenarios *)

\* A scenario is a dictionary of keyword arguments of
\* calculate_financial_metrics (params), with or without a 'name' entry.

\* "scenario.get('name', f'... {i+1}')"
ScenarioLabel(scenario, i) ==
    IF scenario.has_name THEN [label |-> "name", name |-> scenario.name, position |-> 0]
    ELSE [label |-> "default", name |-> "", position |-> i + 1]

\* "lambda x: x['roi'] if x['roi'] else -999"
BestRoiKey(result) == IF Falsy(result.metrics.roi) THEN R(-999) ELSE result.metrics.roi

\* Python's max(results, key=...): the first result with the largest key.
PyMaxIndex(results) ==
    CHOOSE i \in 1..Len(results) :
        /\ \A j \in 1..Len(results) : RLe(BestRoiKey(results[j]), BestRoiKey(results[i]))
        /\ \A j \in 1..(i - 1) : RLt(BestRoiKey(results[j]), BestRoiKey(results[i]))

\* Python's min(..., key=lambda x: x['payback_period']) over the results
\* with a payback: the first result with the smallest payback.
PyMinIndex(results) ==
    CHOOSE i \in 1..Len(results) :
        /\ ~results[i].metrics.payback_period.none
        /\ \A j \in 1..Len(results) :
               ~results[j].metrics.payback_period.none =>
                   RLe(results[i].metrics.payback_period.v,
                       results[j].metrics.payback_period.v)
        /\ \A j \in 1..(i - 1) :
               ~results[j].metrics.payback_period.none =>
                   RLt(results[i].metrics.payback_period.v,
                       results[j].metrics.payback_period.v)

\* calculate_financial_metrics(**scenario) has no parameter 'name': a
\* scenario that carries a name ends the call with TypeError.  max() of an
\* empty list ends it with ValueError.
compare_scenarios(scenarios) ==
    IF \E i \in 1..Len(scenarios) : scenarios[i].has_name
    THEN [raised |-> TRUE, error |-> "TypeError"]
    ELSE LET results ==
                 [i \in 1..Len(scenarios) |->
                     [ metrics |-> calculate_financial_metrics(scenarios[i].params),
                       scenario_name |-> ScenarioLabel(scenarios[i], i - 1) ]]
         IN  IF Len(scenarios) = 0
             THEN [raised |-> TRUE, error |-> "ValueError"]
             ELSE [ raised |-> FALSE, scenarios |-> results,
                    best_roi |-> results[PyMaxIndex(results)],
                    best_payback |->
                        IF \A i \in 1..Len(results) : results[i].metrics.payback_period.none
                        THEN [none |-> TRUE]
                        ELSE [none |-> FALSE, v |-> results[PyMinIndex(results)]] ]

-----------------------------------------------------------------------------
(* WeatherAPI.batch_get_ghi_data *)

\* What get_ghi_data puts on the network: the one "requests.get(url,
\* timeout=10)" of its try block; no branch issues a second one.
GhiRequests(location) == <<[event |-> "request", location |-> location, seconds |-> 0]>>

\* Mutant of BatchSleep: the delay is waited after every fetch.
BatchSleep_Always(i, n, delay) ==
    <<[event |-> "sleep", location |-> <<>>, seconds |-> delay]>>

\* "if i < len(locations) - 1: time.sleep(delay)", i counted from 0.
BatchSleep(i, n, delay) ==
    IF i < n - 1 THEN <<[event |-> "sleep", location |-> <<>>, seconds |-> delay]>>
    ELSE <<>>

\* "results[(lat, lon)] = ghi": the entry of the key is replaced.
DictSet(results, key, value) ==
    {e \in results : e.key # key} \cup {[key |-> key, value |-> value]}

\* The loop over enumerate(locations) after its first k passes: the
\* dictionary results and what happened on the network and the clock.
RECURSIVE BatchLoop(_, _, _, _)
BatchLoop(locations, fetches, delay, k) ==
    IF k = 0 THEN [results |-> {}, log |-> <<>>]
    ELSE LET before == BatchLoop(locations, fetches, delay, k - 1)
             ghi    == get_ghi_data(fetches[k])
         IN  [ results |-> IF ~ghi.none
                           THEN DictSet(before.results, locations[k], ghi.v)
                           ELSE before.results,
               log |-> before.log \o GhiRequests(locations[k])
                       \o BatchSleep(k - 1, Len(locations), delay) ]

batch_get_ghi_data(locations, fetches, delay) ==
    BatchLoop(locations, fetches, delay, Len(locations))

-----------------------------------------------------------------------------
(* The requests the model draws *)

\* Lifetimes 0..MaxLifetime: past year 20, so that every maintenance tier runs.
MaxLifetime == 21

\* lifetime=25 (app.py) and DEFAULT_LIFETIME (config.py)
DEFAULT_LIFETIME == 25

SystemSizes == {1, 3}

AnnualEnergies == {0, 52, 103, 218}

InstallCosts == {0, 200}

\* No degradation, or all output lost after the first year.
AnnualDegradations == {R(0), R(1)}

\* Output halving every year, which makes revenue fall below maintenance:
\* drawn for the 1 kWp system only, to keep (1/2) ** year * amount in range.
SteepDegradations == {Rat(1, 2)}

RecPrices == {0, 1}

\* The spec's worked example: 3 kWp, 1300 kWh/kWp, 1,800,000 per kW, default
\* lifetime, tariffs 180 + 40 (SMP + REC) or the flat default 120.
EnhancedExample ==
    [ system_size |-> 3, annual_energy |-> 1300, install_cost_per_kw |-> 1800000,
      smp_price |-> 180, rec_price |-> 40, annual_degradation |-> R(0),
      lifetime |-> DEFAULT_LIFETIME, tie_up |-> FALSE ]

AnalyzerExample ==
    [ system_size |-> 3, annual_energy |-> 1300, install_cost_per_kw |-> 1800000,
      electricity_price |-> 120, annual_degradation |-> R(0),
      lifetime |-> DEFAULT_LIFETIME, tie_up |-> FALSE ]

\* A request whose payback, 200 / 4000 = 0.05, lies half way between 0.0 and
\* 0.1 and is no float: either rounding can come out.
EnhancedHalfway ==
    [ system_size : {1}, annual_energy : {4002}, install_cost_per_kw : {200},
      smp_price : {1}, rec_price : {0}, annual_degradation : {R(0)},
      lifetime : {1, 2}, tie_up : BOOLEAN ]

EnhancedInputs ==
    [ system_size : SystemSizes, annual_energy : AnnualEnergies,
      install_cost_per_kw : InstallCosts, smp_price : {1}, rec_price : RecPrices,
      annual_degradation : AnnualDegradations, lifetime : 0..MaxLifetime,
      tie_up : {FALSE} ]
    \cup
    [ system_size : {1}, annual_energy : AnnualEnergies,
      install_cost_per_kw : InstallCosts, smp_price : {1}, rec_price : RecPrices,
      annual_degradation : SteepDegradations, lifetime : 0..MaxLifetime,
      tie_up : {FALSE} ]
    \cup {EnhancedExample}
    \cup EnhancedHalfway

AnalyzerInputs ==
    [ system_size : SystemSizes, annual_energy : AnnualEnergies,
      install_cost_per_kw : InstallCosts, electricity_price : {1},
      annual_degradation : AnnualDegradations, lifetime : 0..MaxLifetime,
      tie_up : {FALSE} ]
    \cup
    [ system_size : {1}, annual_energy : AnnualEnergies,
      install_cost_per_kw : InstallCosts, electricity_price : {1},
      annual_degradation : SteepDegradations, lifetime : 0..MaxLifetime,
      tie_up : {FALSE} ]
    \cup {AnalyzerExample}

FarmlandInputs ==
    [ area_pyeong : {R(10), R(20), R(100)}, lat : {R(36), R(40)},
      lon : {R(127), R(131)}, tie_up : BOOLEAN ]

\* Requests with every tilt and azimuth case (absent, in range, out of range),
\* and requests whose system size is absent or out of range.
DesktopInputs ==
    [ lat : {R(0), Rat(55, 2), Rat(-55, 2)}, lng : {R(0), R(127)},
      system_size : {R(1), R(3)}, tilt : {R(-1), R(0), R(24), R(29), R(90), R(91)},
      azimuth : {R(0), R(130), R(180), R(361)}, smp_price : {R(100)},
      rec_price : {R(0), R(1000)}, tie_up : {FALSE} ]
    \cup
    [ lat : {Rat(55, 2)}, lng : {R(127)},
      system_size : {R(0), R(-1), R(10001)}, tilt : {R(24)},
      azimuth : {R(180)}, smp_price : {R(0), R(100)},
      rec_price : {R(0), R(1000)}, tie_up : {FALSE} ]

\* Latitudes -90.0, -89.9, ..., 90.0
Latitudes == {Rat(k, 10) : k \in -900..900}

AngleInputs ==
    [ lat : Latitudes, lon : {R(0), Rat(1278, 10)}, ghi_annual : {R(0), R(1200)},
      tie_up : {FALSE} ]

MatrixInputs ==
    [ lat : {R(0), Rat(365, 10), Rat(-339, 10)}, lon : {Rat(1278, 10)},
      ghi_annual : {R(0), R(1200)} ]

\* Latitudes 30.0, 30.1, ..., 40.0 around the Korean bands, and far ones.
FallbackLatitudes ==
    {Rat(k, 10) : k \in 300..400} \cup {R(-90), R(-35), R(0), R(90)}

FallbackLongitudes ==
    {Rat(1259, 10), R(126), R(128), R(130), Rat(1301, 10), R(-180), R(0), R(180)}

FallbackInputs == [lat : FallbackLatitudes, lon : FallbackLongitudes]

\* What the service answers: a failure, or an annual GHI.
Fetches ==
    [outcome : FetchFailures, ghi : {R(0)}]
    \cup [outcome : {"ok"}, ghi : {R(0), R(1200), Rat(14567, 10)}]

\* Configurations a request can carry: none, a complete one, a complete one
\* with one field left out, an empty object.
FullConfigs ==
    { _get_default_system_config,
      [_get_default_system_config EXCEPT !.tracking_type = "single_axis",
                                         !.bifacial_factor = Rat(7, 10)],
      [_get_default_system_config EXCEPT !.temp_model = "simple"] }

RequestConfigs ==
    {None}
    \cup {Some(c) : c \in FullConfigs}
    \cup {Some([k \in (ConfigFields \ {f}) |-> c[k]]) :
              f \in ConfigFields, c \in {_get_default_system_config,
                                         [_get_default_system_config
                                            EXCEPT !.temp_model = "simple"]}}
    \cup {Some([k \in {} |-> R(0)])}

\* Results of the pvlib simulation, by month (Wh/m2).
Sims ==
    { [ poa_global |-> [m \in 1..12 |-> R(0)],
        poa_ground_diffuse |-> [m \in 1..12 |-> R(0)], temp_factor |-> Rat(11, 10) ],
      [ poa_global |-> [m \in 1..12 |-> R(100000 + 5000 * m)],
        poa_ground_diffuse |-> [m \in 1..12 |-> R(2000)], temp_factor |-> Rat(95, 100) ] }

PvRequests ==
    [ lat : {None, Some(R(0)), Some(Rat(365, 10)), Some(R(91))},
      lon : {None, Some(R(0)), Some(Rat(1278, 10)), Some(R(-181))},
      tilt : {None, Some(R(20))}, azimuth : {None},
      system_config : RequestConfigs, fetch : Fetches, sim : Sims, tie_up : {FALSE} ]

PvEnergyInputs ==
    [ lat : {R(-90), R(0), Rat(365, 10), R(90)}, lon : {Rat(1278, 10)},
      tilt : {R(0), R(30), R(90)}, azimuth : {R(0), R(180), R(360)},
      ghi_annual : {R(0), R(1200)}, system_config : RequestConfigs, sim : Sims,
      tie_up : {FALSE} ]

\* Seasonal weights by month (not yet normalised).
SeasonalVectors ==
    { [m \in 1..12 |-> R(1)],
      <<R(1), R(1), R(2), R(2), R(3), R(3), R(3), R(3), R(2), R(2), R(1), R(1)>> }

EstimateInputs ==
    [ lat : {R(0), Rat(355, 10), Rat(365, 10), R(-30)}, lon : {Rat(1278, 10)},
      tilt : {Rat(31, 10), R(90)}, azimuth : {R(0), R(180)},
      ghi_annual : {R(0), R(1200)}, seasonal : SeasonalVectors,
      coarse_efficiency : {Rat(15, 100), Rat(16, 100)},
      primary_fails : BOOLEAN, fallback_fails : BOOLEAN ]

OptimizerOutcomes == {"success", "failure", "raises"}

DetailedInputs ==
    [ lat : {Rat(-339, 10), R(0), Rat(365, 10)}, lon : {Rat(1278, 10)},
      ghi_annual : {R(1200)}, optimizer : OptimizerOutcomes,
      x : { [tilt |-> Rat(3004, 100), azimuth |-> Rat(17996, 100)],
            [tilt |-> R(0), azimuth |-> R(360)] },
      yield_raises_objective : BOOLEAN, yield_raises_fallback : BOOLEAN,
      tie_up : {FALSE} ]

ObjectiveInputs ==
    [ lat : {Rat(365, 10)}, lon : {Rat(1278, 10)}, ghi_annual : {R(1200)},
      tilt : {Rat(-1, 10), R(0), R(45), R(90), Rat(901, 10)},
      azimuth : {R(-1), R(0), R(180), R(360), R(361)},
      yield_raises : BOOLEAN ]

\* Coordinates of a request: absent, zero, inside the ranges, outside them.
RequestLatitudes == {None, Some(R(0)), Some(Rat(365, 10)), Some(R(91))}

RequestLongitudes == {None, Some(R(0)), Some(Rat(1278, 10)), Some(R(-181))}

CoordinateFetches ==
    { [outcome |-> "request_error", ghi |-> R(0)], [outcome |-> "ok", ghi |-> R(1200)] }

OptimizeRequests ==
    [ lat : RequestLatitudes, lon : RequestLongitudes, method : {"simple", "detailed"},
      fetch : CoordinateFetches, optimizer : OptimizerOutcomes,
      x : {[tilt |-> Rat(3004, 100), azimuth |-> Rat(17996, 100)]},
      yield_raises : BOOLEAN, tie_up : {FALSE} ]

SensitivityRequests ==
    [ lat : RequestLatitudes, lon : RequestLongitudes,
      optimal_tilt : {None, Some(R(0)), Some(R(30))},
      optimal_azimuth : {None, Some(R(180))},
      fetch : CoordinateFetches, yield_raises : BOOLEAN ]

HeatmapRequests ==
    [ lat : RequestLatitudes, lon : RequestLongitudes,
      fetch : CoordinateFetches, yield_raises : BOOLEAN ]

DownloadRequests ==
    [ lat : RequestLatitudes, lon : RequestLongitudes,
      format : {"csv", "json", "excel", "xml"},
      fetch : CoordinateFetches, yield_raises : BOOLEAN ]

FinancialRequests ==
    [ annual_energy : {None} \cup {Some(e) : e \in AnnualEnergies},
      system_size : SystemSizes, install_cost : InstallCosts,
      electricity_price : {1}, annual_degradation : AnnualDegradations,
      lifetime : {1, 2, MaxLifetime}, tie_up : {FALSE} ]

\* Cash-flow schedules of short projects, and two written out by hand.
NpvSchedules ==
    { _calculate_cash_flows(tc, ar, deg, life) :
          tc \in {R(0), R(1000), R(5400)}, ar \in {R(0), R(500), R(3000)},
          deg \in {R(0), Rat(1, 2)}, life \in 0..3 }
    \cup { <<R(-100), R(50), R(-25), R(200)>>, <<R(7)>> }

NpvInputs == [ cash_flows : NpvSchedules, discount_rate : {R(0), Rat(1, 2), R(1)} ]

\* Schedules whose bisection the model can follow to its end.
IrrInputs == { cf \in NpvSchedules : IrrFollowable(cf) }

HourlyGhiInputs == [ ghi_annual : {R(0), R(73), R(146), R(365)} ]

SensitivityInputs ==
    [ lat : {Rat(365, 10)}, lon : {Rat(1278, 10)}, ghi_annual : {R(0), R(1200)},
      optimal_tilt : {R(0), Rat(31, 10), R(5), R(30), Rat(308, 10), R(85), R(90)},
      optimal_azimuth : {R(0), R(20), R(180), R(350), R(360)},
      shape : {"flat", "peaked"}, tie_up : {FALSE} ]

SensitivityScenario ==
    [ system_size |-> 1, annual_energy |-> 1300, install_cost_per_kw |-> 1000,
      electricity_price |-> 1, annual_degradation |-> R(0), lifetime |-> 2,
      tie_up |-> FALSE ]

\* variation_range = (start, end, step): increasing ranges, empty ranges
\* (start > end), and a step that does not advance.
VariationInputs ==
    [ base_scenario : {SensitivityScenario}, variable : {"lifetime", "system_size"},
      start : 0..2, end : 0..4, step : {-1, 0, 1, 2} ]

\* Scenarios with roi 0 (lifetime 0), a negative roi (no production), and
\* two that pay back.
ScenarioParams ==
    { [SensitivityScenario EXCEPT !.lifetime = 0],
      [SensitivityScenario EXCEPT !.annual_energy = 0],
      SensitivityScenario,
      [SensitivityScenario EXCEPT !.annual_energy = 600] }

Scenarios ==
    [has_name : {FALSE}, name : {""}, params : ScenarioParams]
    \cup [has_name : {TRUE}, name : {"east roof"}, params : {SensitivityScenario}]

MaxScenarios == 3

ScenarioLists ==
    UNION { [1..n -> Scenarios] : n \in 0..MaxScenarios }

MaxLocations == 3

BatchLocations == { <<R(36), R(127)>>, <<R(-34), R(151)>> }

BatchFetches ==
    { [outcome |-> "ok", ghi |-> R(1200)], [outcome |-> "ok", ghi |-> R(0)],
      [outcome |-> "request_error", ghi |-> R(0)],
      [outcome |-> "missing_key", ghi |-> R(0)] }

BatchInputs ==
    UNION { [ locations : [1..n -> BatchLocations], fetches : [1..n -> BatchFetches],
              delay : {1} ] : n \in 0..MaxLocations }

-----------------------------------------------------------------------------
(* Specification *)

\* No request is being served.
Idle == [idle |-> TRUE]

Init ==
    /\ op = "idle"
    /\ args = Idle
    /\ ret = Idle

CallEnhanced ==
    /\ op = "idle"
    /\ \E a \in EnhancedInputs :
        /\ op' = "calculate_enhanced_financial_metrics"
        /\ args' = a
        /\ ret' = calculate_enhanced_financial_metrics(a)

CallAnalyzer ==
    /\ op = "idle"
    /\ \E a \in AnalyzerInputs :
        /\ op' = "calculate_financial_metrics"
        /\ args' = a
        /\ ret' = calculate_financial_metrics(a)

CallFarmland ==
    /\ op = "idle"
    /\ \E a \in FarmlandInputs :
        /\ op' = "calculate_farmland_solar"
        /\ args' = a
        /\ ret' = calculate_farmland_solar(a)

CallDesktop ==
    /\ op = "idle"
    /\ \E a \in DesktopInputs :
        /\ op' = "calculate_desktop_solar"
        /\ args' = a
        /\ ret' = calculate_desktop_solar(a)

CallFindOptimalAnglesSimple ==
    /\ op = "idle"
    /\ \E a \in AngleInputs :
        /\ op' = "find_optimal_angles_simple"
        /\ args' = a
        /\ ret' = find_optimal_angles_simple(a.lat, a.lon, a.ghi_annual, a.tie_up)

CallFindOptimalAngles ==
    /\ op = "idle"
    /\ \E a \in AngleInputs :
        /\ op' = "find_optimal_angles"
        /\ args' = a
        /\ ret' = find_optimal_angles(a.lat, a.lon, a.ghi_annual, a.tie_up)

CallAngleMatrix ==
    /\ op = "idle"
    /\ \E a \in MatrixInputs :
        /\ op' = "calculate_angle_matrix"
        /\ args' = a
        /\ ret' = calculate_angle_matrix(a.lat, a.lon, a.ghi_annual)

CallAngleHeatmap ==
    /\ op = "idle"
    /\ \E a \in MatrixInputs :
        /\ op' = "generate_angle_heatmap"
        /\ args' = a
        /\ ret' = generate_angle_heatmap(a.lat, a.lon, a.ghi_annual)

CallFallbackGhi ==
    /\ op = "idle"
    /\ \E a \in FallbackInputs :
        /\ op' = "get_fallback_ghi"
        /\ args' = a
        /\ ret' = get_fallback_ghi(a.lat, a.lon)

CallGetPvData ==
    /\ op = "idle"
    /\ \E req \in PvRequests :
        /\ op' = "get_pv_data"
        /\ args' = req
        /\ ret' = get_pv_data(req)

CallGetAdvancedPvData ==
    /\ op = "idle"
    /\ \E req \in PvRequests :
        /\ op' = "get_advanced_pv_data"
        /\ args' = req
        /\ ret' = get_advanced_pv_data(req)

CallCalculatePvEnergy ==
    /\ op = "idle"
    /\ \E a \in PvEnergyInputs :
        /\ op' = "calculate_pv_energy"
        /\ args' = a
        /\ ret' = calculate_pv_energy(a.lat, a.lon, a.tilt, a.azimuth, a.ghi_annual,
                                      a.system_config, a.sim, a.tie_up)

CallEstimate ==
    /\ op = "idle"
    /\ \E a \in EstimateInputs :
        /\ op' = "estimate"
        /\ args' = a
        /\ ret' = estimate(a)

CallAngleOptimizerDetailed ==
    /\ op = "idle"
    /\ \E a \in DetailedInputs :
        /\ op' = "AngleOptimizer.find_optimal_angles_detailed"
        /\ args' = a
        /\ ret' = AngleOptimizer_find_optimal_angles_detailed(a)

CallSolarCalculatorDetailed ==
    /\ op = "idle"
    /\ \E a \in DetailedInputs :
        /\ op' = "SolarCalculator.find_optimal_angles_detailed"
        /\ args' = a
        /\ ret' = SolarCalculator_find_optimal_angles_detailed(a)

CallAngleOptimizerObjective ==
    /\ op = "idle"
    /\ \E a \in ObjectiveInputs :
        /\ op' = "AngleOptimizer.objective_function"
        /\ args' = a
        /\ ret' = AngleOptimizer_objective_function(a.lat, a.lon, a.ghi_annual,
                      a.tilt, a.azimuth, a.yield_raises)

CallSolarCalculatorObjective ==
    /\ op = "idle"
    /\ \E a \in ObjectiveInputs :
        /\ op' = "SolarCalculator.objective_function"
        /\ args' = a
        /\ ret' = SolarCalculator_objective_function(a.lat, a.lon, a.ghi_annual,
                      a.tilt, a.azimuth, a.yield_raises)

CallOptimizeAngles ==
    /\ op = "idle"
    /\ \E req \in OptimizeRequests :
        /\ op' = "optimize_angles"
        /\ args' = req
        /\ ret' = optimize_angles(req)

CallSensitivityAnalysis ==
    /\ op = "idle"
    /\ \E req \in SensitivityRequests :
        /\ op' = "sensitivity_analysis"
        /\ args' = req
        /\ ret' = sensitivity_analysis(req)

CallAngleHeatmapChart ==
    /\ op = "idle"
    /\ \E req \in HeatmapRequests :
        /\ op' = "get_angle_heatmap_chart"
        /\ args' = req
        /\ ret' = get_angle_heatmap_chart(req)

CallDownloadData ==
    /\ op = "idle"
    /\ \E req \in DownloadRequests :
        /\ op' = "download_data"
        /\ args' = req
        /\ ret' = download_data(req)

CallFinancialAnalysis ==
    /\ op = "idle"
    /\ \E req \in FinancialRequests :
        /\ op' = "financial_analysis"
        /\ args' = req
        /\ ret' = financial_analysis(req)

CallCalculateNpv ==
    /\ op = "idle"
    /\ \E a \in NpvInputs :
        /\ op' = "_calculate_npv"
        /\ args' = a
        /\ ret' = [npv |-> _calculate_npv(a.cash_flows, a.discount_rate)]

CallCalculateIrr ==
    /\ op = "idle"
    /\ \E cf \in IrrInputs :
        /\ op' = "_calculate_irr: in loop"
        /\ args' = [cash_flows |-> cf]
        /\ ret' = IrrStart

IrrIterate ==
    /\ op = "_calculate_irr: in loop"
    /\ NpvOutcome(args.cash_flows, Mid(ret.low, ret.high)) # "unknown"
    /\ LET r == IrrIteration(args.cash_flows, ret)
       IN  /\ op' = IF r.returned THEN "_calculate_irr" ELSE op
           /\ ret' = r
    /\ UNCHANGED args

CallGenerateHourlyGhi ==
    /\ op = "idle"
    /\ \E a \in HourlyGhiInputs :
        /\ op' = "_generate_hourly_ghi"
        /\ args' = a
        /\ ret' = [hourly_ghi |-> _generate_hourly_ghi(a.ghi_annual)]

CallAngleSensitivity ==
    /\ op = "idle"
    /\ \E a \in SensitivityInputs :
        /\ op' = "calculate_angle_sensitivity"
        /\ args' = a
        /\ ret' = calculate_angle_sensitivity(a)

CallFinancialSensitivity ==
    /\ op = "idle"
    /\ \E a \in VariationInputs :
        /\ a.step < 0 => a.start > a.end
        /\ op' = "FinancialAnalyzer.sensitivity_analysis: in loop"
        /\ args' = a
        /\ ret' = SensitivityStart(a)

\* One test of "while current <= end", followed by the loop body or by
\* "return results".
SensitivityIterate ==
    /\ op = "FinancialAnalyzer.sensitivity_analysis: in loop"
    /\ IF ret.current <= args.end
       THEN /\ ret' = SensitivityBody(args, ret)
            /\ UNCHANGED <<op, args>>
       ELSE /\ op' = "FinancialAnalyzer.sensitivity_analysis"
            /\ ret' = [ results |-> ret.results, more |-> ret.more,
                        base_scenario |-> ret.base_scenario ]
            /\ UNCHANGED args

CallCompareScenarios ==
    /\ op = "idle"
    /\ \E scenarios \in ScenarioLists :
        /\ op' = "compare_scenarios"
        /\ args' = [scenarios |-> scenarios]
        /\ ret' = compare_scenarios(scenarios)

CallBatchGetGhiData ==
    /\ op = "idle"
    /\ \E a \in BatchInputs :
        /\ op' = "batch_get_ghi_data"
        /\ args' = a
        /\ ret' = batch_get_ghi_data(a.locations, a.fetches, a.delay)

\* The result is handed to the caller; nothing of the call is kept.
Respond ==
    /\ op \notin {"idle", "_calculate_irr: in loop",
                 "FinancialAnalyzer.sensitivity_analysis: in loop"}
    /\ op' = "idle"
    /\ args' = Idle
    /\ ret' = Idle

Next ==
    \/ CallEnhanced
    \/ CallAnalyzer
    \/ CallFarmland
    \/ CallDesktop
    \/ CallFindOptimalAnglesSimple
    \/ CallFindOptimalAngles
    \/ CallAngleMatrix
    \/ CallAngleHeatmap
    \/ CallFallbackGhi
    \/ CallGetPvData
    \/ CallGetAdvancedPvData
    \/ CallCalculatePvEnergy
    \/ CallEstimate
    \/ CallAngleOptimizerDetailed
    \/ CallSolarCalculatorDetailed
    \/ CallAngleOptimizerObjective
    \/ CallSolarCalculatorObjective
    \/ CallOptimizeAngles
    \/ CallSensitivityAnalysis
    \/ CallAngleHeatmapChart
    \/ CallDownloadData
    \/ CallFinancialAnalysis
    \/ CallCalculateNpv
    \/ CallCalculateIrr
    \/ IrrIterate
    \/ CallGenerateHourlyGhi
    \/ CallAngleSensitivity
    \/ CallFinancialSensitivity
    \/ SensitivityIterate
    \/ CallCompareScenarios
    \/ CallBatchGetGhiData
    \/ Respond

Spec == Init /\ [][Next]_vars

\* The calls of FinancialAnalyzer.sensitivity_analysis alone.
SensitivityNext ==
    \/ CallFinancialSensitivity
    \/ SensitivityIterate
    \/ Respond

\* A loop that is running keeps running: the interpreter does not stop
\* between two passes of "while current <= end".
LiveSpec == Init /\ [][SensitivityNext]_vars /\ WF_vars(SensitivityIterate)

-----------------------------------------------------------------------------
(* Claims about the financial analysis *)

FinOps == {"calculate_enhanced_financial_metrics", "calculate_financial_metrics"}

IsFin == op \in FinOps

\* What the call was asked to analyse, from its arguments alone.
ArgTotalCost == R(args.system_size * args.install_cost_per_kw)

ArgAnnualRevenue ==
    IF op = "calculate_enhanced_financial_metrics"
    THEN R(args.system_size * args.annual_energy * (args.smp_price + args.rec_price))
    ELSE R(args.system_size * args.annual_energy * args.electricity_price)

ArgYearRevenue(y) ==
    RMul(ArgAnnualRevenue, RPow(RSub(R(1), args.annual_degradation), y))

\* The maintenance the variant that ran charges in year y.
OwnMaintenance(y) ==
    IF op = "calculate_enhanced_financial_metrics"
    THEN RMul(ArgTotalCost, EnhancedMaintenanceRate(y))
    ELSE RMul(ArgTotalCost, AnalyzerMaintenanceRate(y))

\* The spec's maintenance tiers: 1% to year 10, 1.5% to year 20, 2% after.
TieredRate(y) ==
    IF y <= 10 THEN Rat(1, 100) ELSE IF y <= 20 THEN Rat(3, 200) ELSE Rat(1, 50)

Increment(y) == RSub(At(ret.cash_flows, y), At(ret.cash_flows, y - 1))

\* C1: cash_flows has lifetime + 1 entries, starts at -(system_size *
\* install_cost_per_kw), and every later entry is the previous one plus that
\* year's net cash flow (revenue after degradation minus maintenance), i.e. the
\* running cumulative position; the worked example gives total_cost 5400000,
\* annual_production 3900, cash_flows[0] = -5400000 and 26 entries.
C1_CashFlowsAreCumulative ==
    IsFin =>
        /\ Len(ret.cash_flows) = args.lifetime + 1
        /\ At(ret.cash_flows, 0) = R(-(args.system_size * args.install_cost_per_kw))
        /\ \A y \in 1..args.lifetime :
               At(ret.cash_flows, y) =
                   RAdd(At(ret.cash_flows, y - 1),
                        RSub(ArgYearRevenue(y), OwnMaintenance(y)))
        /\ (args \in {EnhancedExample, AnalyzerExample} =>
               /\ ret.total_cost = 5400000
               /\ ret.annual_production = R(3900)
               /\ At(ret.cash_flows, 0) = R(-5400000)
               /\ Len(ret.cash_flows) = 26)

C1_Witness ==
    /\ op = "calculate_enhanced_financial_metrics"
    /\ args = EnhancedExample
    /\ Len(ret.cash_flows) = 26
    /\ RIsNeg(At(ret.cash_flows, 1))
    /\ RLt(At(ret.cash_flows, 1), At(ret.cash_flows, 25))

\* C2 (as claimed): in every variant the increment of year y is
\* annual_revenue * (1 - degradation)^y - total_cost * rate(y) with the tiered
\* rate 0.01 / 0.015 / 0.02.
C2_TieredMaintenanceEverywhere ==
    IsFin =>
        \A y \in 1..args.lifetime :
            Increment(y) = RSub(ArgYearRevenue(y), RMul(ArgTotalCost, TieredRate(y)))

TurnsAt(i) ==
    /\ RIsNeg(At(ret.cash_flows, i - 1))
    /\ ~RIsNeg(At(ret.cash_flows, i))

C4_NegativeEndMeansNoPayback ==
    (IsFin /\ RIsNeg(Last(ret.cash_flows))) => ret.payback_period.none

\* C5 (as claimed): a position that is non-negative at year 0 (total_cost = 0)
\* gives payback_period = 0.
C5_FreeSystemPaysBackAtZero ==
    (IsFin /\ ~RIsNeg(At(ret.cash_flows, 0))) => ret.payback_period = Some(R(0))

\* C6 (as claimed): for total_cost > 0 every variant reports
\* roi = cash_flows[lifetime] / total_cost * 100 (rounded to one decimal), the
\* net profit over the cost.
C6_RoiIsNetProfitOverCost ==
    (IsFin /\ RLt(R(0), ArgTotalCost)) =>
        /\ ret.roi_exact = RMul(RDiv(Last(ret.cash_flows), ArgTotalCost), R(100))
        /\ ret.roi = Round1(RMul(RDiv(Last(ret.cash_flows), ArgTotalCost), R(100)),
                            args.tie_up)

\* C7: with install_cost_per_kw = 0 the call raises nothing (no division by
\* zero in the payback, ROI, NPV or IRR step) and returns roi = 0.
C7_ZeroCostIsSafe ==
    (IsFin /\ args.install_cost_per_kw = 0) =>
        /\ ~ret.raised
        /\ ret.roi = R(0)

C7_Witness ==
    /\ op = "calculate_financial_metrics"
    /\ args.install_cost_per_kw = 0
    /\ args.lifetime > 0
    /\ args.annual_energy > 0
    /\ RLt(R(0), Last(ret.cash_flows))
    /\ ~ret.raised
    /\ ret.roi = R(0)

-----------------------------------------------------------------------------
(* Claims about the SMP + REC revenue *)

SmpRecRan ==
    \/ op = "calculate_enhanced_financial_metrics"
    \/ op = "calculate_farmland_solar" /\ ret.installable
    \/ op = "calculate_desktop_solar" /\ ret.success

\* The production, the prices and the two revenues of the call that ran.
RanProduction ==
    IF op = "calculate_enhanced_financial_metrics"
    THEN R(args.system_size * args.annual_energy)
    ELSE ret.generation_exact

RanSmpPrice ==
    IF op = "calculate_enhanced_financial_metrics" THEN R(args.smp_price)
    ELSE IF op = "calculate_farmland_solar" THEN Rat(12839, 100)
    ELSE OrDefault(args.smp_price, Rat(12839, 100))

RanRecPrice ==
    IF op = "calculate_enhanced_financial_metrics" THEN R(args.rec_price)
    ELSE ret.rec_price

RanSmpRevenue ==
    IF op = "calculate_enhanced_financial_metrics" THEN R(ret.annual_smp_revenue)
    ELSE ret.smp_revenue_exact

RanRecRevenue ==
    IF op = "calculate_enhanced_financial_metrics" THEN R(ret.annual_rec_revenue)
    ELSE ret.rec_revenue_exact

\* (annual_production / 1000) * rec_weight * rec_price
PerMWh(annual_production, rec_weight, rec_price) ==
    RMul(RMul(RDiv(annual_production, R(1000)), rec_weight), rec_price)

\* C8 (as claimed): every variant has smp_revenue = annual_production *
\* smp_price and rec_revenue = (annual_production / 1000) * rec_weight *
\* rec_price for a REC weight between 1.0 and 1.5, so that equal production,
\* price and weight give equal REC revenue in all three variants.
C8_RecRevenuePerMWh ==
    SmpRecRan =>
        /\ RanSmpRevenue = RMul(RanProduction, RanSmpPrice)
        /\ RLe(PerMWh(RanProduction, R(1), RanRecPrice), RanRecRevenue)
        /\ RLe(RanRecRevenue, PerMWh(RanProduction, Rat(3, 2), RanRecPrice))

-----------------------------------------------------------------------------
(* Claims about the optimal angles and the angle matrix *)

AngleOps == {"find_optimal_angles_simple", "find_optimal_angles"}

\* |lat| * 0.76 + 3.1
LatitudeRule == RAdd(RMul(RAbs(args.lat), Rat(76, 100)), Rat(31, 10))

\* C9: for a latitude in [-90, 90] the heuristic optimal_tilt is the multiple
\* of 0.1 nearest to |lat| * 0.76 + 3.1 and lies in [0, 90]; optimal_azimuth
\* is 180 for lat >= 0 and 0 for lat < 0; longitude and GHI have no part in
\* the result; lat = 36.5 gives 30.8 / 180 and lat = -33.9 gives azimuth 0;
\* AngleOptimizer.find_optimal_angles_simple and
\* SolarCalculator.find_optimal_angles return the same for the same input.
C9_HeuristicAngles ==
    op \in AngleOps =>
        LET t == ret.optimal_tilt
        IN  /\ 10 % t.d = 0
            /\ RLe(RSub(t, LatitudeRule), Rat(1, 20))
            /\ RLe(RSub(LatitudeRule, t), Rat(1, 20))
            /\ RLe(R(0), t) /\ RLe(t, R(90))
            /\ ret.optimal_azimuth = (IF args.lat.n >= 0 THEN 180 ELSE 0)
            /\ \A lon \in {R(0), R(-180), R(180)}, ghi \in {R(0), R(1), R(2500)} :
                   /\ ret = find_optimal_angles_simple(args.lat, lon, ghi, args.tie_up)
                   /\ ret = find_optimal_angles(args.lat, lon, ghi, args.tie_up)
            /\ (args.lat = Rat(365, 10) =>
                   ret = [optimal_tilt |-> Rat(308, 10), optimal_azimuth |-> 180])
            /\ (args.lat = Rat(-339, 10) => ret.optimal_azimuth = 0)

\* The equator faces south (180), with the smallest tilt the rule gives.
C9_Witness ==
    /\ op = "find_optimal_angles_simple"
    /\ args.lat = R(0)
    /\ args.lon = Rat(1278, 10)
    /\ args.ghi_annual = R(1200)
    /\ ret = [optimal_tilt |-> Rat(31, 10), optimal_azimuth |-> 180]

MatrixOps == {"calculate_angle_matrix", "generate_angle_heatmap"}

\* C10 (as claimed): the matrix has len(range(0, 91, 5)) rows and
\* len(range(90, 271, 10)) columns, for tilt 0, 5, ..., 90 and azimuth 90,
\* 100, ..., 270, and cell [i][j] is the yield at tilt_range[i] and
\* azimuth_range[j].
C10_MatrixCoversBothRanges ==
    op \in MatrixOps =>
        /\ ret.tilt_range = PyRange(0, 91, 5)
        /\ ret.azimuth_range = PyRange(90, 271, 10)
        /\ Len(ret.energy_matrix) = Len(PyRange(0, 91, 5))
        /\ \A i \in 1..Len(ret.energy_matrix) :
               /\ Len(ret.energy_matrix[i]) = Len(PyRange(90, 271, 10))
               /\ \A j \in 1..Len(ret.energy_matrix[i]) :
                      ret.energy_matrix[i][j] =
                          AnnualEnergy(args.lat, args.lon, ret.tilt_range[i],
                                       ret.azimuth_range[j], args.ghi_annual)

-----------------------------------------------------------------------------
(* Claims about the weather data and the request handlers *)

\* The Korean box of the configuration, by its numbers.
InKorea(lat, lon) ==
    /\ RLe(R(33), lat) /\ RLe(lat, R(38))
    /\ RLe(R(126), lon) /\ RLe(lon, R(130))

\* C11: get_fallback_ghi returns, for a Korean location, 1350 if lat < 34.5,
\* 1280 if 34.5 <= lat < 36.0, 1220 if 36.0 <= lat < 37.5 and 1180 otherwise,
\* and 1200 for every location outside Korea; it returns for every (lat, lon)
\* and nothing but (lat, lon) enters the result.
C11_FallbackGhiBands ==
    op = "get_fallback_ghi" =>
        LET lat == args.lat
        IN  /\ ret \in {1350, 1280, 1220, 1180, 1200}
            /\ ~InKorea(lat, args.lon) => ret = 1200
            /\ InKorea(lat, args.lon) =>
                   /\ RLt(lat, Rat(345, 10)) => ret = 1350
                   /\ (RLe(Rat(345, 10), lat) /\ RLt(lat, R(36))) => ret = 1280
                   /\ (RLe(R(36), lat) /\ RLt(lat, Rat(375, 10))) => ret = 1220
                   /\ RLe(Rat(375, 10), lat) => ret = 1180

\* A Korean location exactly on a band limit takes the northern band's value.
C11_Witness ==
    /\ op = "get_fallback_ghi"
    /\ args.lat = Rat(345, 10)
    /\ args.lon = R(128)
    /\ ret = 1280

YieldEntryPoints == {"get_pv_data", "get_advanced_pv_data"}

\* The request names a place, in range, and its configuration is usable.
WellFormedPvRequest ==
    /\ ~NotGiven(args.lat) /\ ~NotGiven(args.lon)
    /\ validate_coordinates(args.lat.v, args.lon.v)
    /\ (args.system_config.none \/ args.system_config.v \in FullConfigs)

\* C12 (as claimed): on every yield-estimation entry point a failed weather
\* fetch is recovered with the static regional fallback GHI and the estimate
\* is returned; the failure never becomes an error response.
C12_FetchFailureIsRecovered ==
    (op \in YieldEntryPoints /\ WellFormedPvRequest
        /\ args.fetch.outcome \in FetchFailures) =>
        /\ ret.status = 200
        /\ ret.ghi_used = R(get_fallback_ghi(args.lat.v, args.lon.v))

\* C13 (as claimed): for lat in [-90, 90], valid tilt and azimuth, ghi_annual
\* >= 0 and every system_config the request layer can pass (None, or an
\* object with any subset of the configuration fields), calculate_pv_energy
\* does not raise and returns annual_energy >= 0 and exactly 12
\* monthly_energy entries, each >= 0.
C13_PvEnergyNeverRaises ==
    op = "calculate_pv_energy" =>
        /\ ~ret.raised
        /\ RLe(R(0), ret.annual_energy)
        /\ Len(ret.monthly_energy) = 12
        /\ \A m \in 1..12 : RLe(R(0), ret.monthly_energy[m])

\* C14: in every result of calculate_desktop_solar the tilt factor lies in
\* [0.8, 1.1] and the azimuth factor in [0.7, 1.0], and so do the reported
\* percentages (80..110 and 70..100), whatever latitude, tilt and azimuth were
\* passed, values outside the declared ranges included.
C14_FactorsClamped ==
    (op = "calculate_desktop_solar" /\ ret.success) =>
        /\ RLe(Rat(8, 10), ret.tilt_factor) /\ RLe(ret.tilt_factor, Rat(11, 10))
        /\ RLe(Rat(7, 10), ret.azimuth_factor) /\ RLe(ret.azimuth_factor, R(1))
        /\ RLe(R(80), ret.tilt_efficiency) /\ RLe(ret.tilt_efficiency, R(110))
        /\ RLe(R(70), ret.azimuth_efficiency) /\ RLe(ret.azimuth_efficiency, R(100))

\* A panel at tilt 90 facing south at latitude -27.5: both raw factors
\* (0.472 and 0.64) are below their floors and are clamped to 0.8 and 0.7.
C14_Witness ==
    /\ op = "calculate_desktop_solar" /\ ret.success
    /\ args.lat = Rat(-55, 2) /\ args.tilt = R(90) /\ args.azimuth = R(180)
    /\ ret.tilt_factor = Rat(8, 10) /\ ret.azimuth_factor = Rat(7, 10)
    /\ RLt(RSub(R(1), RMul(RAbs(RSub(args.tilt, R(24))), Rat(8, 1000))), Rat(8, 10))

\* C15: the empirical estimator never raises; it answers from the primary
\* tier exactly when the primary formula did not fail, from the simplified
\* variant exactly when the primary failed and the variant did not, and from
\* the last resort exactly when both failed; the last-resort answer is
\* annual_energy = ghi_annual * 0.15, twelve equal months, temp_effect -5.0,
\* optimal_tilt 30 and optimal_azimuth 180.
C15_ThreeTiers ==
    op = "estimate" =>
        /\ ~ret.raised
        /\ (ret.tier = "Primary") = ~args.primary_fails
        /\ (ret.tier = "Fallback") = (args.primary_fails /\ ~args.fallback_fails)
        /\ (ret.tier = "LastResort") = (args.primary_fails /\ args.fallback_fails)
        /\ ret.tier = "LastResort" =>
            /\ ret.annual_energy = RMul(args.ghi_annual, Rat(15, 100))
            /\ \A m \in 1..12 :
                   RMul(ret.monthly_energy[m], R(12)) = ret.annual_energy
            /\ ret.temp_effect = R(-5)
            /\ ret.optimal_tilt = R(30)
            /\ ret.optimal_azimuth = R(180)

\* Both tiers failed for ghi 1200: the answer is the last resort, 180 kWh.
C15_Witness ==
    /\ op = "estimate" /\ args.primary_fails /\ args.fallback_fails
    /\ args.ghi_annual = R(1200)
    /\ ret.tier = "LastResort" /\ ret.annual_energy = R(180)
    /\ ret.monthly_energy[1] = R(15)

-----------------------------------------------------------------------------
(* Claims about the numeric optimisation *)

DetailedOps ==
    {"AngleOptimizer.find_optimal_angles_detailed",
     "SolarCalculator.find_optimal_angles_detailed"}

\* The heuristic answer the call has to fall back to.
HeuristicAnswer(r, a) ==
    LET h == find_optimal_angles_simple(a.lat, a.lon, a.ghi_annual, a.tie_up)
    IN  /\ r.tilt = h.optimal_tilt
        /\ r.azimuth = R(h.optimal_azimuth)
        /\ r.has_energy
        /\ r.energy = AnnualEnergy(a.lat, a.lon, h.optimal_tilt,
                                   R(h.optimal_azimuth), a.ghi_annual)

\* C16 (as claimed): find_optimal_angles_detailed of AngleOptimizer and of
\* SolarCalculator never lets an exception out, and whenever the optimizer
\* reports failure or raises it returns the heuristic angles of
\* find_optimal_angles_simple together with the yield at those angles.
C16_DetailedNeverRaises ==
    op \in DetailedOps =>
        /\ ~ret.raised
        /\ args.optimizer # "success" => HeuristicAnswer(ret, args)

ObjectiveOps == {"AngleOptimizer.objective_function", "SolarCalculator.objective_function"}

\* C20: outside tilt [0, 90] or azimuth [0, 360] the objective function
\* returns the penalty 10000, calls no yield calculation and does not raise;
\* inside the bounds, when the yield calculation returns, it returns the
\* negated annual energy of the calculation at exactly those angles.
C20_ObjectivePenalty ==
    op \in ObjectiveOps =>
        /\ OutOfBounds(args.tilt, args.azimuth) =>
              ~ret.raised /\ ~ret.yield_called /\ ret.value = Penalty
        /\ (~OutOfBounds(args.tilt, args.azimuth) /\ ~args.yield_raises) =>
              /\ ~ret.raised /\ ret.yield_called
              /\ ret.value = Negated(AnnualEnergy(args.lat, args.lon, args.tilt,
                                                  args.azimuth, args.ghi_annual))

\* SolarCalculator's objective asked about azimuth 361 at a valid tilt, with
\* a yield calculation that would raise: the penalty is returned unraised.
C20_Witness ==
    /\ op = "SolarCalculator.objective_function"
    /\ args.tilt = R(45) /\ args.azimuth = R(361) /\ args.yield_raises
    /\ ~ret.raised /\ ~ret.yield_called /\ ret.value.number = 10000

-----------------------------------------------------------------------------
(* Claims about the validation of requests *)

CoordinateHandlers ==
    {"get_pv_data", "optimize_angles", "sensitivity_analysis",
     "get_angle_heatmap_chart", "download_data"}

\* C17 (as claimed): every handler that takes lat/lon answers coordinates
\* outside lat [-90, 90] or lon [-180, 180] with an error, and has by then
\* started neither a weather fetch nor a yield computation.
C17_InvalidCoordinatesRejected ==
    (/\ op \in CoordinateHandlers
     /\ ~args.lat.none /\ ~args.lon.none
     /\ ~validate_coordinates(args.lat.v, args.lon.v)) =>
        /\ ret.status = 400
        /\ ~ret.fetch_started
        /\ ~ret.yield_started

\* The coordinates of a request are present and inside the ranges.
CoordinatesInRange(a) ==
    /\ ~a.lat.none /\ ~a.lon.none
    /\ validate_coordinates(a.lat.v, a.lon.v)

\* The arguments of calculate_desktop_solar are inside their declared bounds.
DesktopInBounds(a) ==
    /\ validate_coordinates(a.lat, a.lng)
    /\ RLt(R(0), a.system_size) /\ RLe(a.system_size, R(10000))
    /\ RLe(R(0), a.tilt) /\ RLe(a.tilt, R(90))
    /\ RLe(R(0), a.azimuth) /\ RLe(a.azimuth, R(360))
    /\ RLe(R(0), a.smp_price) /\ RLe(R(0), a.rec_price)

\* C18 (as claimed): a request with well-formed inputs inside their ranges
\* is not rejected: pv_data and optimize_angles do not answer 400 to
\* coordinates inside the ranges (lat = 0 and lon = 0 included),
\* calculate_desktop_solar succeeds on them, and financial_analysis does not
\* answer 400 to an annual_energy >= 0.
C18_WellFormedIsAccepted ==
    /\ (op \in {"get_pv_data", "optimize_angles"} /\ CoordinatesInRange(args)) =>
           ret.status # 400
    /\ (op = "calculate_desktop_solar" /\ DesktopInBounds(args)) => ret.success
    /\ (op = "financial_analysis" /\ ~args.annual_energy.none
          /\ args.annual_energy.v >= 0) => ret.status # 400

\* C19 (as claimed): calculate_desktop_solar uses a tilt in [0, 90], an
\* azimuth in [0, 360] and a system_size in (0, 10000] unchanged (0 included
\* for the angles), and answers success = False to a value outside these
\* bounds.
C19_NoSilentReplacement ==
    (op = "calculate_desktop_solar" /\ validate_coordinates(args.lat, args.lng)
       /\ ~Falsy(args.lat) /\ ~Falsy(args.lng)) =>
        IF DesktopInBounds(args)
        THEN /\ ret.success
             /\ ret.tilt_used = args.tilt
             /\ ret.azimuth_used = args.azimuth
             /\ ret.system_size = args.system_size
        ELSE ~ret.success

-----------------------------------------------------------------------------
(* Claims about NPV, IRR and the scenario analyses *)

\* The sum over years 1..year of
\* (cash_flows[y] - cash_flows[y-1]) / (1 + r)^y, counted from the last year
\* down.
RECURSIVE DiscountedIncrements(_, _, _)
DiscountedIncrements(cash_flows, r, y) ==
    IF y > Len(cash_flows) - 1 THEN R(0)
    ELSE RAdd(RDiv(RSub(At(cash_flows, y), At(cash_flows, y - 1)),
                   RPow(RAdd(R(1), r), y)),
              DiscountedIncrements(cash_flows, r, y + 1))

\* C22: _calculate_npv(cash_flows, r) is cash_flows[0] plus the discounted
\* yearly increments; at r = 0 it is the final cumulative entry; and the
\* npv_at_rate of _calculate_irr gives the same value.
C22_NpvDiscountsIncrements ==
    op = "_calculate_npv" =>
        /\ ret.npv = RAdd(At(args.cash_flows, 0),
                          DiscountedIncrements(args.cash_flows, args.discount_rate, 1))
        /\ args.discount_rate = R(0) => ret.npv = Last(args.cash_flows)
        /\ ret.npv = npv_at_rate(args.cash_flows, args.discount_rate)

\* <<-100, 50, -25, 200>> at rate 0: -100 + 150 - 75 + 225 = 200, the last
\* entry; the cumulative entries would add up to 125.
C22_Witness ==
    /\ op = "_calculate_npv"
    /\ args.cash_flows = <<R(-100), R(50), R(-25), R(200)>>
    /\ args.discount_rate = R(0)
    /\ ret.npv = R(200)

\* C21 (as claimed): _calculate_irr ends within 100 bisection steps and
\* returns None or a percentage in [0, 100) at which |NPV| < 1000; it
\* returns None when the NPV is negative at every rate in [0, 1] and when it
\* is positive at every rate in [0, 1].
C21_IrrIsRootOrNone ==
    op = "_calculate_irr" =>
        /\ ret.steps <= IrrMaxIterations
        /\ ret.none \/ (ret.converged /\ ret.percent_of # FloatOne)
        /\ NeverProfitable(args.cash_flows) => ret.none
        /\ AlwaysProfitable(args.cash_flows) => ret.none

-----------------------------------------------------------------------------
(* Claims about the hourly GHI series and the degenerate GHI *)

\* The series summed over the 24 hours of a day of month m.
RECURSIVE DaySum(_, _, _)
DaySum(hourly_ghi, m, hour) ==
    IF hour < 0 THEN R(0)
    ELSE RAdd(DaySum(hourly_ghi, m, hour - 1), hourly_ghi[m][hour])

\* The series summed over the months 1..m of the year.
RECURSIVE YearSum(_, _)
YearSum(hourly_ghi, m) ==
    IF m = 0 THEN R(0)
    ELSE RAdd(YearSum(hourly_ghi, m - 1),
              RMul(R(DaysInMonth[m]), DaySum(hourly_ghi, m, 23)))

\* C24 (as claimed): the hourly GHI series is zero before 06:00 and after
\* 18:00, its sum over a day is ghi_annual / 365 times the normalized ratio
\* of the month (ghi_annual / 365 where that ratio is 1), its sum over the
\* year is ghi_annual, and the monthly ratios have mean 1.
C24_DailyIntegral ==
    op = "_generate_hourly_ghi" =>
        /\ \A m \in 1..12 : \A h \in (0..5) \cup (19..23) :
               ret.hourly_ghi[m][h] = R(0)
        /\ \A m \in 1..12 :
               DaySum(ret.hourly_ghi, m, 23) =
                   RMul(RDiv(args.ghi_annual, R(365)), NormalizedMonthlyRatio(m))
        /\ YearSum(ret.hourly_ghi, 12) = args.ghi_annual
        /\ SumSeq([m \in 1..12 |-> NormalizedMonthlyRatio(m)], 12) = R(12)

\* The angles of a list of sensitivity entries.
SweptAngles(entries) == {entries[i].angle : i \in DOMAIN entries}

\* angle modulo 360, for angles in -360..720.
Mod360(angle) ==
    IF RLt(angle, R(0)) THEN RAdd(angle, R(360))
    ELSE IF RLe(R(360), angle) THEN RSub(angle, R(360))
    ELSE angle

\* C23 (as claimed): with a non-zero yield, calculate_angle_sensitivity
\* sweeps tilt over optimum-10 .. optimum+10 (as far as that lies in
\* [0, 90]) and azimuth over optimum-30 .. optimum+30 (through north where
\* needed), every swept angle lies in tilt [0, 90] and azimuth [0, 360],
\* the optimum is one of the swept points, and the loss_percent reported at
\* the optimum is 0.
C23_SweepAroundOptimum ==
    (op = "calculate_angle_sensitivity" /\ args.ghi_annual # R(0)) =>
        LET tilts    == SweptAngles(ret.tilt_sensitivity)
            azimuths == SweptAngles(ret.azimuth_sensitivity)
        IN  /\ \A t \in tilts : RLe(R(0), t) /\ RLe(t, R(90))
            /\ \A z \in azimuths : RLe(R(0), z) /\ RLe(z, R(360))
            /\ \A k \in -5..5 :
                   LET t == RAdd(args.optimal_tilt, R(2 * k))
                   IN  (RLe(R(0), t) /\ RLe(t, R(90))) => t \in tilts
            /\ \A k \in -6..6 :
                   \E z \in azimuths :
                       Mod360(z) = Mod360(RAdd(args.optimal_azimuth, R(5 * k)))
            /\ \E i \in DOMAIN ret.tilt_sensitivity :
                   /\ ret.tilt_sensitivity[i].angle = args.optimal_tilt
                   /\ ret.tilt_sensitivity[i].loss_percent = R(0)
            /\ \E j \in DOMAIN ret.azimuth_sensitivity :
                   /\ ret.azimuth_sensitivity[j].angle = args.optimal_azimuth
                   /\ ret.azimuth_sensitivity[j].loss_percent = R(0)

\* C25 (as claimed): with ghi_annual = 0 nothing fails and everything is
\* finite: calculate_pv_energy on an all-zero simulation returns
\* annual_energy 0 and twelve zero months, and calculate_angle_sensitivity
\* returns a finite loss_percent for every swept angle.
C25_ZeroGhiIsHarmless ==
    /\ (op = "calculate_pv_energy" /\ args.ghi_annual = R(0) /\ args.system_config.none
          /\ \A m \in 1..12 : args.sim.poa_global[m] = R(0)) =>
           /\ ~ret.raised
           /\ ret.annual_energy = R(0)
           /\ \A m \in 1..12 : ret.monthly_energy[m] = R(0)
    /\ (op = "calculate_angle_sensitivity" /\ args.ghi_annual = R(0)) =>
           /\ \A i \in DOMAIN ret.tilt_sensitivity :
                  ~IsErr(ret.tilt_sensitivity[i].loss_percent)
           /\ \A j \in DOMAIN ret.azimuth_sensitivity :
                  ~IsErr(ret.azimuth_sensitivity[j].loss_percent)

-----------------------------------------------------------------------------
(* Claims about the reported optimum and the scenario analyses *)

\* energy is the yield of a calculation for this call's site at angles
\* inside the bounds.
IsYieldInsideBounds(energy, a) ==
    /\ DOMAIN energy = DOMAIN AnnualEnergy(a.lat, a.lon, R(0), R(0), a.ghi_annual)
    /\ ~OutOfBounds(energy.tilt, energy.azimuth)
    /\ energy = AnnualEnergy(a.lat, a.lon, energy.tilt, energy.azimuth, a.ghi_annual)

\* C26 (as claimed): whenever AngleOptimizer.find_optimal_angles_detailed
\* returns (tilt, azimuth, max_energy), max_energy is a yield produced by the
\* yield calculation for angles inside the bounds; the penalty is never
\* reported as energy, also when every objective evaluation returned the
\* penalty and the optimizer reported success.
C26_MaxEnergyIsAYield ==
    (op = "AngleOptimizer.find_optimal_angles_detailed" /\ ~ret.raised) =>
        ret.has_energy /\ IsYieldInsideBounds(ret.energy, args)

\* The values start, start + step, start + 2 * step, ... that are <= end,
\* for a step that advances.
RECURSIVE VariedValues(_, _, _)
VariedValues(current, end, step) ==
    IF current > end THEN <<>>
    ELSE <<current>> \o VariedValues(current + step, end, step)

\* C27 (as claimed): FinancialAnalyzer.sensitivity_analysis terminates for
\* every variation_range (start, end, step); what it returns has exactly
\* one result per value start, start + step, ... that is <= end, each
\* carrying that value under the varied key, and the caller's base_scenario
\* is unchanged.
C27_SensitivityTerminates ==
    /\ [](op = "FinancialAnalyzer.sensitivity_analysis" =>
            /\ ~ret.more
            /\ ret.base_scenario = args.base_scenario
            /\ args.step > 0 =>
                  LET values == VariedValues(args.start, args.end, args.step)
                  IN  /\ Len(ret.results) = Len(values)
                      /\ \A i \in 1..Len(values) :
                            /\ ret.results[i].variable = args.variable
                            /\ ret.results[i].value = values[i])
    /\ (op = "FinancialAnalyzer.sensitivity_analysis: in loop")
           ~> (op = "FinancialAnalyzer.sensitivity_analysis")

\* C28 (as claimed): compare_scenarios returns, for every list of scenarios,
\* one result per scenario in input order, labelled with the scenario's own
\* name when it has one and with the default label of position i+1
\* otherwise; best_roi is a result with maximal roi; best_payback is the
\* result with the smallest non-null payback_period, and None exactly when
\* no scenario pays back.
C28_CompareScenarios ==
    op = "compare_scenarios" =>
        LET n == Len(args.scenarios)
        IN  /\ ~ret.raised
            /\ Len(ret.scenarios) = n
            /\ \A i \in 1..n :
                  /\ ret.scenarios[i].metrics =
                         calculate_financial_metrics(args.scenarios[i].params)
                  /\ ret.scenarios[i].scenario_name =
                         IF args.scenarios[i].has_name
                         THEN [label |-> "name", name |-> args.scenarios[i].name,
                               position |-> 0]
                         ELSE [label |-> "default", name |-> "", position |-> i]
            /\ n > 0 =>
                  /\ \E i \in 1..n : ret.best_roi = ret.scenarios[i]
                  /\ \A i \in 1..n :
                        RLe(ret.scenarios[i].metrics.roi, ret.best_roi.metrics.roi)
            /\ ret.best_payback.none <=>
                  \A i \in 1..n : ret.scenarios[i].metrics.payback_period.none
            /\ ~ret.best_payback.none =>
                  /\ \E i \in 1..n : ret.best_payback.v = ret.scenarios[i]
                  /\ \A i \in 1..n :
                        ~ret.scenarios[i].metrics.payback_period.none =>
                            RLe(ret.best_payback.v.metrics.payback_period.v,
                                ret.scenarios[i].metrics.payback_period.v)

\* |x|
IntAbs(x) == IF x < 0 THEN -x ELSE x

\* C29: the lifetime totals agree with the cash-flow schedule of the same
\* call.  In FinancialAnalyzer the reported life_cycle_revenue, which a loop
\* of its own computes, is the truncation of cash_flows[lifetime] +
\* total_cost.  In calculate_enhanced_financial_metrics the reported
\* net_profit is the truncation of cash_flows[lifetime], and the reported
\* life_cycle_revenue is net_profit + total_cost up to the truncation of
\* the reported values (they differ by at most 1).
C29_TotalsMatchSchedule ==
    /\ op = "calculate_financial_metrics" =>
           ret.life_cycle_revenue = PyInt(RAdd(At(ret.cash_flows, args.lifetime), ArgTotalCost))
    /\ op = "calculate_enhanced_financial_metrics" =>
           /\ ret.net_profit = PyInt(At(ret.cash_flows, args.lifetime))
           /\ ret.life_cycle_revenue =
                  PyInt(RAdd(At(ret.cash_flows, args.lifetime), ArgTotalCost))
           /\ IntAbs(ret.life_cycle_revenue - (ret.net_profit + ret.total_cost)) <= 1

\* A FinancialAnalyzer call over more than ten years with a cost, and so
\* with maintenance, whose life_cycle_revenue is not zero.
C29_Witness ==
    /\ op = "calculate_financial_metrics"
    /\ args.lifetime > 10
    /\ ret.total_cost > 0
    /\ ret.life_cycle_revenue > 0
    /\ ret.life_cycle_revenue # PyInt(At(ret.cash_flows, args.lifetime))

-----------------------------------------------------------------------------
(* Claims about the weather client *)

\* C30: the weather client never retries.  batch_get_ghi_data issues
\* exactly one request per listed location, in list order; it waits the
\* delay between two consecutive fetches and never after the last; the keys
\* of the map it returns are exactly the locations with a fetch that
\* succeeded, each failed fetch having returned None without ending the
\* loop.
C30_BatchFetchesOnce ==
    op = "batch_get_ghi_data" =>
        LET n        == Len(args.locations)
            requests == SelectSeq(ret.log, LAMBDA e : e.event = "request")
        IN  /\ Len(requests) = n
            /\ \A i \in 1..n : requests[i].location = args.locations[i]
            /\ Len(ret.log) = IF n = 0 THEN 0 ELSE 2 * n - 1
            /\ \A i \in 1..Len(ret.log) :
                   IF i % 2 = 1 THEN ret.log[i].event = "request"
                   ELSE ret.log[i].event = "sleep" /\ ret.log[i].seconds = args.delay
            /\ {e.key : e \in ret.results} =
                   {args.locations[i] : i \in {j \in 1..n : args.fetches[j].outcome = "ok"}}
            /\ \A i \in 1..n :
                   get_ghi_data(args.fetches[i]).none <=> args.fetches[i].outcome # "ok"

\* Three locations, the first and the last fetch failing, the middle one
\* answering GHI 0: its location is the only key.
C30_Witness ==
    /\ op = "batch_get_ghi_data"
    /\ Len(args.locations) = 3
    /\ args.locations[1] # args.locations[2]
    /\ args.fetches[1].outcome = "request_error"
    /\ args.fetches[2] = [outcome |-> "ok", ghi |-> R(0)]
    /\ args.fetches[3].outcome = "missing_key"
    /\ ret.results = {[key |-> args.locations[2], value |-> R(0)]}
    /\ Len(ret.log) = 5

=============================================================================
